---- MODULE Spec2Model ----
(***************************************************************************)
(* Workflow graph execution engine of graph-ai (backend/usecases/          *)
(* execution.py, backend/integrations/prefect.py, backend/flows/           *)
(* prefect_execution_flow.py).                                             *)
(*                                                                         *)
(* Three specifications share the module:                                  *)
(*   SpecGraph  the graph builder as a pure function: Init draws a node    *)
(*              list and an edge list, BuildGraph applies                  *)
(*              _build_graph_context to them;                              *)
(*   Spec       the life of Execution records: create_execution, the       *)
(*              Prefect dispatch, the worker's execute_and_finalize;       *)
(*   FairSpec   Spec with the fairness of request handling and of the      *)
(*              worker running a dispatched flow run.                      *)
(*                                                                         *)
(* Strings the engine computes with (input values, node outputs) are       *)
(* sequences of one-character strings; messages and enum members are       *)
(* TLA+ strings.  None stands for Python's None / SQL NULL.                *)
(***************************************************************************)
EXTENDS Integers, Sequences, FiniteSets, TLC

VARIABLES
    workflow,     \* the Workflow row the executions belong to, or Null
    nodes,        \* Node rows of the workflow, in get_all order
    edges,        \* Edge rows of the workflow, in get_all order
    graph,        \* SpecGraph: result of _build_graph_context, or NotBuilt
    providers,    \* LLMProvider rows: set of [id, user_id]
    executions,   \* Execution rows, executions[i] has id i
    calls,        \* per execution id: where its create_execution call stands
    flow_runs,    \* per execution id: state of the Prefect flow run
    runs,         \* per execution id: how many times execute_and_finalize ran,
                  \* the chat requests its last run sent, and whether the
                  \* update of mark_execution_success raised in it
    response      \* what the last finished create_execution gave its caller

vars == <<workflow, nodes, edges, graph, providers, executions, calls, flow_runs, runs, response>>

None == "None"
NotBuilt == [built |-> FALSE]

\* ------------------------------------------------------------------ bounds
MaxNodes == 3
MaxEdges == 2

\* ------------------------------------------------------------------ enums
INPUT == "input"
LLM == "llm"
OUTPUT == "output"
NodeType == {INPUT, LLM, OUTPUT}

\* ------------------------------------------------------------- helpers
Range(s) == {s[i] : i \in 1..Len(s)}

IndexOf(s, x) == CHOOSE i \in 1..Len(s) : s[i] = x

IsTypeInput(node) == node.type = INPUT
IsTypeOutput(node) == node.type = OUTPUT

\* --------------------------------------------------------- error messages
MsgNoNodes == "Workflow must contain at least one node"
MsgInputCount == "Workflow must contain exactly one input node"
MsgOutputCount == "Workflow must contain exactly one output node"
MsgMissingRef == "Workflow contains edge with missing node reference"
MsgCycle == "Workflow graph must be acyclic"
MsgConnectivity == "All workflow nodes must belong to input->output path"

ExecutionGraphValidationError(message) ==
    [raised |-> TRUE, error |-> "ExecutionGraphValidationError", message |-> message]

\* ------------------------------------------------------- graph builder
NodeIds(ns) == [i \in 1..Len(ns) |-> ns[i].id]

\* Mutant of BuildAdjacency: a source is put at the front of inbound[target].
RECURSIVE BuildAdjacency_InboundPrepended(_, _, _, _, _)
BuildAdjacency_InboundPrepended(es, ids, outbound, inbound, indegree) ==
    IF es = <<>>
    THEN [raised |-> FALSE, outbound |-> outbound, inbound |-> inbound,
          indegree |-> indegree]
    ELSE LET source_id == Head(es).source_node_id
             target_id == Head(es).target_node_id
         IN IF source_id \notin ids \/ target_id \notin ids
            THEN ExecutionGraphValidationError(MsgMissingRef)
            ELSE BuildAdjacency_InboundPrepended(
                   Tail(es), ids,
                   [outbound EXCEPT ![source_id] = Append(@, target_id)],
                   [inbound EXCEPT ![target_id] = <<source_id>> \o @],
                   [indegree EXCEPT ![target_id] = @ + 1])

\* The loop over edges of _build_graph_context: appends to outbound/inbound,
\* counts indegree, raises at the first edge with a missing endpoint.
RECURSIVE BuildAdjacency(_, _, _, _, _)
BuildAdjacency(es, ids, outbound, inbound, indegree) ==
    IF es = <<>>
    THEN [raised |-> FALSE, outbound |-> outbound, inbound |-> inbound,
          indegree |-> indegree]
    ELSE LET source_id == Head(es).source_node_id
             target_id == Head(es).target_node_id
         IN IF source_id \notin ids \/ target_id \notin ids
            THEN ExecutionGraphValidationError(MsgMissingRef)
            ELSE BuildAdjacency(
                   Tail(es), ids,
                   [outbound EXCEPT ![source_id] = Append(@, target_id)],
                   [inbound EXCEPT ![target_id] = Append(@, source_id)],
                   [indegree EXCEPT ![target_id] = @ + 1])

\* Mutant of RelaxStep: the zero test reads the count before the decrement.
RelaxStep_TestBeforeDecrement(st, target_id) ==
    [seen |-> [st.seen EXCEPT ![target_id] = @ - 1],
     queue |-> IF st.seen[target_id] = 0 THEN Append(st.queue, target_id)
               ELSE st.queue]

\* The inner for loop of _topological_order over outbound[node_id].
RelaxStep(st, target_id) ==
    LET seen == [st.seen EXCEPT ![target_id] = @ - 1]
    IN [seen |-> seen,
        queue |-> IF seen[target_id] = 0 THEN Append(st.queue, target_id)
                  ELSE st.queue]

RECURSIVE Relax(_, _)
Relax(targets, st) ==
    IF targets = <<>> THEN st
    ELSE Relax(Tail(targets), RelaxStep(st, Head(targets)))

\* The while loop of _topological_order (Kahn's algorithm, FIFO queue).
RECURSIVE KahnLoop(_, _, _, _)
KahnLoop(queue, order, seen_indegree, outbound) ==
    IF queue = <<>> THEN order
    ELSE LET node_id == Head(queue)
             st == Relax(outbound[node_id],
                         [seen |-> seen_indegree, queue |-> Tail(queue)])
         IN KahnLoop(st.queue, Append(order, node_id), st.seen, outbound)

\* Mutant of TopologicalOrder: the length check that detects a cycle is gone.
TopologicalOrder_NoLengthCheck(ids, indegree, outbound) ==
    LET queue == SelectSeq(ids, LAMBDA node_id : indegree[node_id] = 0)
    IN [raised |-> FALSE, order |-> KahnLoop(queue, <<>>, indegree, outbound)]

TopologicalOrder(ids, indegree, outbound) ==
    LET queue == SelectSeq(ids, LAMBDA node_id : indegree[node_id] = 0)
        order == KahnLoop(queue, <<>>, indegree, outbound)
    IN IF Len(order) # Len(ids)
       THEN ExecutionGraphValidationError(MsgCycle)
       ELSE [raised |-> FALSE, order |-> order]

\* _collect_reachable: DFS with an explicit stack, pop from the end.
RECURSIVE CollectLoop(_, _, _)
CollectLoop(stack, visited, adjacency) ==
    IF stack = <<>> THEN visited
    ELSE LET node_id == stack[Len(stack)]
             rest == SubSeq(stack, 1, Len(stack) - 1)
         IN IF node_id \in visited
            THEN CollectLoop(rest, visited, adjacency)
            ELSE CollectLoop(rest \o adjacency[node_id],
                             visited \cup {node_id}, adjacency)

CollectReachable(start_node_id, adjacency) ==
    CollectLoop(<<start_node_id>>, {}, adjacency)

\* Mutant of ConnectivityRaises: only a path to the output is required.
ConnectivityRaises_BackwardOnly(input_node_id, output_node_id, outbound, inbound, ids) ==
    LET reaches_output == CollectReachable(output_node_id, inbound)
    IN \E node_id \in Range(ids) : node_id \notin reaches_output

\* Mutant of ConnectivityRaises: only reachability from the input is
\* required.
ConnectivityRaises_ForwardOnly(input_node_id, output_node_id, outbound, inbound, ids) ==
    LET reachable_from_input == CollectReachable(input_node_id, outbound)
    IN \E node_id \in Range(ids) : node_id \notin reachable_from_input

\* Mutant of ConnectivityRaises: a node is rejected only when it fails both
\* directions.
ConnectivityRaises_BothDirections(input_id, output_id, outbound, inbound, ids) ==
    LET reachable_from_input == CollectReachable(input_id, outbound)
        reaches_output == CollectReachable(output_id, inbound)
    IN \E node_id \in Range(ids) :
          node_id \notin reachable_from_input /\ node_id \notin reaches_output

\* _validate_connectivity: TRUE when it raises.
ConnectivityRaises(input_node_id, output_node_id, outbound, inbound, ids) ==
    LET reachable_from_input == CollectReachable(input_node_id, outbound)
        reaches_output == CollectReachable(output_node_id, inbound)
    IN \E node_id \in Range(ids) :
          node_id \notin reachable_from_input \/ node_id \notin reaches_output

\* Mutant of BuildValidated: _validate_connectivity runs before
\* _topological_order.
BuildValidated_ConnectivityFirst(ns, es) ==
    LET ids == NodeIds(ns)
        idset == Range(ids)
        input_nodes == SelectSeq(ns, IsTypeInput)
        output_nodes == SelectSeq(ns, IsTypeOutput)
        nodes_by_id == [id \in idset |-> ns[IndexOf(ids, id)]]
        adj == BuildAdjacency(es, idset, [id \in idset |-> <<>>],
                              [id \in idset |-> <<>>], [id \in idset |-> 0])
    IN IF adj.raised THEN adj
       ELSE LET topo == TopologicalOrder(ids, adj.indegree, adj.outbound)
                input_node_id == input_nodes[1].id
                output_node_id == output_nodes[1].id
            IN IF ConnectivityRaises(input_node_id, output_node_id,
                                     adj.outbound, adj.inbound, ids)
               THEN ExecutionGraphValidationError(MsgConnectivity)
               ELSE IF topo.raised THEN topo
               ELSE [raised |-> FALSE,
                     input_node_id |-> input_node_id,
                     output_node_id |-> output_node_id,
                     nodes_by_id |-> nodes_by_id,
                     outbound |-> adj.outbound,
                     inbound |-> adj.inbound,
                     topological_order |-> topo.order]

\* The part of _build_graph_context after the node counts are accepted.
BuildValidated(ns, es) ==
    LET ids == NodeIds(ns)
        idset == Range(ids)
        input_nodes == SelectSeq(ns, IsTypeInput)
        output_nodes == SelectSeq(ns, IsTypeOutput)
        nodes_by_id == [id \in idset |-> ns[IndexOf(ids, id)]]
        adj == BuildAdjacency(es, idset, [id \in idset |-> <<>>],
                              [id \in idset |-> <<>>], [id \in idset |-> 0])
    IN IF adj.raised THEN adj
       ELSE LET topo == TopologicalOrder(ids, adj.indegree, adj.outbound)
                input_node_id == input_nodes[1].id
                output_node_id == output_nodes[1].id
            IN IF topo.raised THEN topo
               ELSE IF ConnectivityRaises(input_node_id, output_node_id,
                                          adj.outbound, adj.inbound, ids)
               THEN ExecutionGraphValidationError(MsgConnectivity)
               ELSE [raised |-> FALSE,
                     input_node_id |-> input_node_id,
                     output_node_id |-> output_node_id,
                     nodes_by_id |-> nodes_by_id,
                     outbound |-> adj.outbound,
                     inbound |-> adj.inbound,
                     topological_order |-> topo.order]

\* Mutant of BuildGraphContext: the INPUT count check accepts two or more.
BuildGraphContext_InputAtLeastOne(ns, es) ==
    IF ns = <<>> THEN ExecutionGraphValidationError(MsgNoNodes)
    ELSE IF Len(SelectSeq(ns, IsTypeInput)) < 1
    THEN ExecutionGraphValidationError(MsgInputCount)
    ELSE IF Len(SelectSeq(ns, IsTypeOutput)) # 1
    THEN ExecutionGraphValidationError(MsgOutputCount)
    ELSE BuildValidated(ns, es)

BuildGraphContext(ns, es) ==
    IF ns = <<>> THEN ExecutionGraphValidationError(MsgNoNodes)
    ELSE IF Len(SelectSeq(ns, IsTypeInput)) # 1
    THEN ExecutionGraphValidationError(MsgInputCount)
    ELSE IF Len(SelectSeq(ns, IsTypeOutput)) # 1
    THEN ExecutionGraphValidationError(MsgOutputCount)
    ELSE BuildValidated(ns, es)

\* ------------------------------------------------ node and edge rows
\* JSON values, tagged with their Python type so that isinstance is a test.
JStr(s) == [t |-> "str", v |-> s]
JInt(i) == [t |-> "int", v |-> i]
JNull == [t |-> "null"]

\* dict.get(key) / dict.get(key, default) on a record
Get(d, key) == IF key \in DOMAIN d THEN d[key] ELSE JNull
GetOr(d, key, default) == IF key \in DOMAIN d THEN d[key] ELSE default

InputData == [label |-> JStr(<<"I">>), format |-> JStr(<<"t","x","t">>)]
OutputData == [label |-> JStr(<<"O">>), format |-> JStr(<<"t","x","t">>)]
LLMData(provider_id) ==
    [label |-> JStr(<<"L">>), llm_provider_id |-> JInt(provider_id),
     model |-> JStr(<<"m">>), system_prompt |-> JStr(<<>>)]

DefaultData(type) ==
    IF type = INPUT THEN InputData
    ELSE IF type = OUTPUT THEN OutputData
    ELSE LLMData(1)

Node(id, type, data) == [id |-> id, type |-> type, data |-> data]
Edge(source_id, target_id) ==
    [source_node_id |-> source_id, target_node_id |-> target_id]

\* Node lists of up to MaxNodes rows with ids 1..n and any types.
NodeLists ==
    UNION {
      {[i \in 1..n |-> Node(i, types[i], DefaultData(types[i]))] :
          types \in [1..n -> NodeType]} : n \in 0..MaxNodes}

\* Edge lists of up to MaxEdges rows; endpoints range over 1..MaxNodes, so
\* an edge of a shorter node list may reference a missing node; self-loops
\* and repeated edges are included (create_edge rejects neither).
EdgeLists ==
    UNION {[1..n -> {Edge(s, t) : s \in 1..MaxNodes, t \in 1..MaxNodes}] :
             n \in 0..MaxEdges}

Owner == "owner"        \* workflow.owner_id
Stranger == "stranger"  \* another user

\* the Workflow row of the one workflow
TheWorkflow == [id |-> 1, owner_id |-> Owner]

\* ------------------------------------------------------------ SpecGraph
InitGraph ==
    /\ workflow = TheWorkflow
    /\ nodes \in NodeLists
    /\ edges \in EdgeLists
    /\ graph = NotBuilt
    /\ providers = {}
    /\ executions = <<>>
    /\ calls = <<>>
    /\ flow_runs = <<>>
    /\ runs = <<>>
    /\ response = None

BuildGraph ==
    /\ graph = NotBuilt
    /\ graph' = BuildGraphContext(nodes, edges)
    /\ UNCHANGED <<workflow, nodes, edges, providers, executions, calls,
                   flow_runs, runs, response>>

NextGraph == BuildGraph

SpecGraph == InitGraph /\ [][NextGraph]_vars

\* =====================================================================
\* Execution records: create_execution, dispatch, execute_and_finalize
\* =====================================================================
MaxExecutions == 1      \* create_execution calls that create a record
MaxReruns == 1          \* repeated execute_and_finalize invocations, in all

RUNNING == "running"
SUCCESS == "success"
FAILED == "failed"
Terminal == {SUCCESS, FAILED}

NL == "\n"

\* "\n".join(values)
RECURSIVE Join(_)
Join(values) ==
    IF values = <<>> THEN <<>>
    ELSE IF Len(values) = 1 THEN values[1]
    ELSE values[1] \o <<NL>> \o Join(Tail(values))

\* ------------------------------------------------------------ exceptions
MsgPayloadRequired == "Input payload is required for txt format"
MsgPayloadObject == "Input payload must be an object"
MsgPayloadValue == "Input payload field 'value' must be a string"
MsgExecPayloadRequired == "Execution input payload is required"
MsgExecPayloadValue == "Execution input_data.value must be a string"
MsgLLMProviderId == "LLM node requires a valid llm_provider_id"
MsgLLMModel == "LLM node requires a non-empty model"
MsgLLMSystemPrompt == "LLM node field system_prompt must be a string"
MsgLLMProviderMissing == "Referenced LLM provider does not exist"
MsgLLMTimeout == "LLM provider request timed out while running execution"
MsgLLMStatus == "LLM provider returned 500"
MsgLLMUnreachable == "LLM provider is unreachable"
MsgDispatch == "Failed to dispatch flow"
MsgNotPersisted == "database error"

Raise(error, message) == [raised |-> TRUE, error |-> error, message |-> message]

ExecutionInputValidationError(message) ==
    Raise("ExecutionInputValidationError", message)
LLMProviderConnectionError(message) ==
    Raise("LLMProviderConnectionError", message)
ExecutionDispatchError(message) == Raise("ExecutionDispatchError", message)

\* str(exc) of a BaseError: the message it was built with.
StrOfError(exc) == exc.message

\* ------------------------------------------------------ input payload
Null == [null |-> TRUE]           \* a dict-typed column that is NULL
IsNull(d) == "null" \in DOMAIN d

\* a JSON array where a dict is expected
NotAnObject == [list |-> <<>>]
IsDict(d) == ~IsNull(d) /\ "list" \notin DOMAIN d

\* _validate_input_payload
ValidateInputPayload(input_data) ==
    IF IsNull(input_data)
    THEN ExecutionInputValidationError(MsgPayloadRequired)
    ELSE IF ~IsDict(input_data)
    THEN ExecutionInputValidationError(MsgPayloadObject)
    ELSE IF Get(input_data, "value").t # "str"
    THEN ExecutionInputValidationError(MsgPayloadValue)
    ELSE [raised |-> FALSE]

\* _extract_input_value
ExtractInputValue(input_data) ==
    IF IsNull(input_data)
    THEN ExecutionInputValidationError(MsgExecPayloadRequired)
    ELSE LET value == Get(input_data, "value")
         IN IF value.t # "str"
            THEN ExecutionInputValidationError(MsgExecPayloadValue)
            ELSE [raised |-> FALSE, value |-> value.v]

\* --------------------------------------------------------- LLM node
\* What the provider does with a chat request: an assistant message or one
\* of the three httpx failures.
LLMOutcomes ==
    {[kind |-> "ok", content |-> <<"r">>], [kind |-> "timeout"],
     [kind |-> "status"], [kind |-> "transport"]}

\* The outcomes the runs of Spec draw from.
RunOutcomes == {outcome \in LLMOutcomes : outcome.kind # "transport"}

ChatMessage(role, content) == [role |-> role, content |-> content]

\* Mutant of ProviderGetBy: the lookup is not scoped to the user.
ProviderGetBy_AnyUser(provs, id, user_id) == {p \in provs : p.id = id}

\* LLMProviderRepository.get_by(id=..., user_id=...)
ProviderGetBy(provs, id, user_id) ==
    {p \in provs : p.id = id /\ p.user_id = user_id}

ExecuteLLMNode_TimeoutAsEmpty(provs, workflow_owner_id, node_data, parent_values, outcome) ==
    LET llm_provider_id == Get(node_data, "llm_provider_id")
        model == Get(node_data, "model")
        system_prompt_value == GetOr(node_data, "system_prompt", JStr(<<>>))
        unsent(exc) == exc @@ [chats |-> <<>>]
    IN IF llm_provider_id.t # "int" \/ llm_provider_id.v <= 0
       THEN unsent(ExecutionGraphValidationError(MsgLLMProviderId))
       ELSE IF model.t # "str" \/ model.v = <<>>
       THEN unsent(ExecutionGraphValidationError(MsgLLMModel))
       ELSE IF system_prompt_value.t # "str"
       THEN unsent(ExecutionGraphValidationError(MsgLLMSystemPrompt))
       ELSE IF ProviderGetBy(provs, llm_provider_id.v, workflow_owner_id) = {}
       THEN unsent(ExecutionGraphValidationError(MsgLLMProviderMissing))
       ELSE LET request ==
                  [provider |-> llm_provider_id.v, model |-> model.v,
                   messages |-> <<ChatMessage("system", system_prompt_value.v),
                                  ChatMessage("user", Join(parent_values))>>]
                sent(res) == res @@ [chats |-> <<request>>]
            IN IF outcome.kind = "timeout"
               THEN sent([raised |-> FALSE, value |-> <<>>])
               ELSE IF outcome.kind = "status"
               THEN sent(LLMProviderConnectionError(MsgLLMStatus))
               ELSE IF outcome.kind = "transport"
               THEN sent(LLMProviderConnectionError(MsgLLMUnreachable))
               ELSE sent([raised |-> FALSE, value |-> outcome.content])

\* _execute_llm_node; chats is the list of chat requests it sent.
ExecuteLLMNode(provs, workflow_owner_id, node_data, parent_values, outcome) ==
    LET llm_provider_id == Get(node_data, "llm_provider_id")
        model == Get(node_data, "model")
        system_prompt_value == GetOr(node_data, "system_prompt", JStr(<<>>))
        unsent(exc) == exc @@ [chats |-> <<>>]
    IN IF llm_provider_id.t # "int" \/ llm_provider_id.v <= 0
       THEN unsent(ExecutionGraphValidationError(MsgLLMProviderId))
       ELSE IF model.t # "str" \/ model.v = <<>>
       THEN unsent(ExecutionGraphValidationError(MsgLLMModel))
       ELSE IF system_prompt_value.t # "str"
       THEN unsent(ExecutionGraphValidationError(MsgLLMSystemPrompt))
       ELSE IF ProviderGetBy(provs, llm_provider_id.v, workflow_owner_id) = {}
       THEN unsent(ExecutionGraphValidationError(MsgLLMProviderMissing))
       ELSE LET request ==
                  [provider |-> llm_provider_id.v, model |-> model.v,
                   messages |-> <<ChatMessage("system", system_prompt_value.v),
                                  ChatMessage("user", Join(parent_values))>>]
                sent(res) == res @@ [chats |-> <<request>>]
            IN IF outcome.kind = "timeout"
               THEN sent(LLMProviderConnectionError(MsgLLMTimeout))
               ELSE IF outcome.kind = "status"
               THEN sent(LLMProviderConnectionError(MsgLLMStatus))
               ELSE IF outcome.kind = "transport"
               THEN sent(LLMProviderConnectionError(MsgLLMUnreachable))
               ELSE sent([raised |-> FALSE, value |-> outcome.content])

\* ------------------------------------------------------- run_execution
MsgStarved == "Node does not have input value"
MsgUnsupported == "Unsupported node type"

\* The for loop of run_execution over topological_order.  llm maps the id
\* of a node to what the provider answers when that node calls it.  log is
\* what the loop did so far: the chat requests sent (chats), the nodes
\* whose branch was entered, in order (trace), and the parent_values each
\* was given (parents).
RECURSIVE RunLoop(_, _, _, _, _, _, _)
RunLoop(order, g, input_value, provs, llm, outputs_by_node, log) ==
    IF order = <<>>
    THEN [raised |-> FALSE, value |-> outputs_by_node[g.output_node_id],
          outputs_by_node |-> outputs_by_node] @@ log
    ELSE
      LET node_id == Head(order)
          node == g.nodes_by_id[node_id]
          parents == g.inbound[node_id]
          entered(parent_values) ==
              [log EXCEPT !.trace = Append(@, node_id),
                          !.parents = (node_id :> parent_values) @@ @]
          stopped(exc, at) ==
              [raised |-> TRUE, error |-> exc.error, message |-> exc.message,
               outputs_by_node |-> outputs_by_node] @@ at
      IN IF node.type = INPUT
         THEN RunLoop(Tail(order), g, input_value, provs, llm,
                      (node_id :> input_value) @@ outputs_by_node,
                      entered(<<>>))
         ELSE IF \E i \in 1..Len(parents) : parents[i] \notin DOMAIN outputs_by_node
         THEN stopped(Raise("KeyError", "KeyError"), log)
         ELSE
           LET parent_values ==
                 [i \in 1..Len(parents) |-> outputs_by_node[parents[i]]]
               at == entered(parent_values)
           IN IF parent_values = <<>>
              THEN stopped(ExecutionGraphValidationError(MsgStarved), log)
              ELSE IF node.type = LLM
              THEN LET r == ExecuteLLMNode(provs, Owner, node.data,
                                           parent_values, llm[node_id])
                       sent == [at EXCEPT !.chats = @ \o r.chats]
                   IN IF r.raised
                      THEN stopped(r, sent)
                      ELSE RunLoop(Tail(order), g, input_value, provs, llm,
                                   (node_id :> r.value) @@ outputs_by_node,
                                   sent)
              ELSE IF node.type = OUTPUT
              THEN RunLoop(Tail(order), g, input_value, provs, llm,
                           (node_id :> Join(parent_values)) @@ outputs_by_node,
                           at)
              ELSE stopped(ExecutionGraphValidationError(MsgUnsupported), log)

\* nothing done yet
EmptyLog == [chats |-> <<>>, trace |-> <<>>, parents |-> <<>>]

\* Mutant of RunExecution: the loop goes over the nodes in row order.
RunExecution_InRowOrder(execution, ns, es, provs, llm) ==
    LET g == BuildGraphContext(ns, es)
    IN IF g.raised THEN g @@ EmptyLog @@ [outputs_by_node |-> <<>>]
       ELSE LET input == ExtractInputValue(execution.input_data)
            IN IF input.raised
               THEN input @@ EmptyLog @@ [outputs_by_node |-> <<>>]
               ELSE LET r == RunLoop(NodeIds(ns), g, input.value,
                                     provs, llm, <<>>, EmptyLog)
                    IN IF r.raised THEN r
                       ELSE [raised |-> FALSE,
                             output |-> [value |-> r.value],
                             outputs_by_node |-> r.outputs_by_node,
                             chats |-> r.chats, trace |-> r.trace,
                             parents |-> r.parents]

\* run_execution for an execution row that exists and whose workflow exists:
\* reads the current nodes and edges, builds the graph, runs the loop.
RunExecution(execution, ns, es, provs, llm) ==
    LET g == BuildGraphContext(ns, es)
    IN IF g.raised THEN g @@ EmptyLog @@ [outputs_by_node |-> <<>>]
       ELSE LET input == ExtractInputValue(execution.input_data)
            IN IF input.raised
               THEN input @@ EmptyLog @@ [outputs_by_node |-> <<>>]
               ELSE LET r == RunLoop(g.topological_order, g, input.value,
                                     provs, llm, <<>>, EmptyLog)
                    IN IF r.raised THEN r
                       ELSE [raised |-> FALSE,
                             output |-> [value |-> r.value],
                             outputs_by_node |-> r.outputs_by_node,
                             chats |-> r.chats, trace |-> r.trace,
                             parents |-> r.parents]

\* ------------------------------------------------- nodes/web_search.py
\* The node type the web-search handler is registered for; run_execution
\* has no branch for it.
WEB_SEARCH == "web_search"

MIN_RESULTS == 1
MAX_RESULTS == 10

MsgWebQueryEmpty == "Web search query is empty"
MsgWebMaxResults ==
    "Web search node requires max_results to be an integer in [1, 10]"
MsgWebTimeout == "Web search request timed out while running execution"
MsgWebStatus == "Web search provider returned 500"
MsgWebFailed == "Web search provider request failed"

WebSearchConnectionError(message) == Raise("WebSearchConnectionError", message)

JList(items) == [t |-> "list", v |-> items]

Whitespace == {" ", NL}

\* str.strip()
RECURSIVE LStrip(_)
LStrip(s) ==
    IF s # <<>> /\ Head(s) \in Whitespace THEN LStrip(Tail(s)) ELSE s

RECURSIVE RStrip(_)
RStrip(s) ==
    IF s # <<>> /\ s[Len(s)] \in Whitespace
    THEN RStrip(SubSeq(s, 1, Len(s) - 1))
    ELSE s

Strip(s) == RStrip(LStrip(s))

\* str(index) for the indexes enumerate(items[:max_results], start=1) gives
Digits == <<"0", "1", "2", "3", "4", "5", "6", "7", "8", "9">>
IntToStr(i) ==
    IF i < 10 THEN <<Digits[i + 1]>>
    ELSE <<Digits[(i \div 10) + 1], Digits[(i % 10) + 1]>>

\* value.strip() if isinstance(value, str) and value.strip() else None
StrippedOrNone(value) ==
    IF value.t = "str" /\ Strip(value.v) # <<>>
    THEN [some |-> TRUE, v |-> Strip(value.v)]
    ELSE [some |-> FALSE]

\* Mutant of BuildQuery: nothing is stripped.
BuildQuery_NoStrip(context) ==
    LET joined == Join(context.parent_values)
        query == IF joined # <<>> THEN joined ELSE context.input_value
    IN IF query = <<>>
       THEN ExecutionGraphValidationError(MsgWebQueryEmpty)
       ELSE [raised |-> FALSE, value |-> query]

\* _build_query
BuildQuery(context) ==
    LET joined == Strip(Join(context.parent_values))
        query == IF joined # <<>> THEN joined ELSE Strip(context.input_value)
    IN IF query = <<>>
       THEN ExecutionGraphValidationError(MsgWebQueryEmpty)
       ELSE [raised |-> FALSE, value |-> query]

\* _read_max_results
ReadMaxResults(context) ==
    LET max_results == Get(context.node_data, "max_results")
    IN IF max_results.t # "int"
          \/ ~(MIN_RESULTS <= max_results.v /\ max_results.v <= MAX_RESULTS)
       THEN ExecutionGraphValidationError(MsgWebMaxResults)
       ELSE [raised |-> FALSE, value |-> max_results.v]

\* the while loop of _extract_related_topics: stack.pop() takes the last
\* entry, a group's Topics are pushed in their order
RECURSIVE RelatedTopicsLoop(_, _)
RelatedTopicsLoop(stack, items) ==
    IF stack = <<>> THEN items
    ELSE LET entry == stack[Len(stack)]
             rest == SubSeq(stack, 1, Len(stack) - 1)
             topics == Get(entry, "Topics")
             text == StrippedOrNone(Get(entry, "Text"))
             url == StrippedOrNone(Get(entry, "FirstURL"))
         IN IF topics.t = "list"
            THEN RelatedTopicsLoop(rest \o topics.v, items)
            ELSE IF ~text.some
            THEN RelatedTopicsLoop(rest, items)
            ELSE RelatedTopicsLoop(rest,
                                   Append(items, [text |-> text.v, url |-> url]))

\* _extract_related_topics (every entry of the modelled payloads is a dict
\* with string keys)
ExtractRelatedTopics(value) ==
    IF value.t # "list" THEN <<>> ELSE RelatedTopicsLoop(value.v, <<>>)

\* f"{index}. {text}{suffix}"
NumberedLine(index, item) ==
    IntToStr(index) \o <<".", " ">> \o item.text
      \o (IF item.url.some THEN <<" ", "(">> \o item.url.v \o <<")">>
          ELSE <<>>)

\* Mutant of FormatResults: the items are not cut to max_results.
FormatResults_NoTruncation(payload, max_results) ==
    LET abstract == StrippedOrNone(Get(payload, "AbstractText"))
        abstract_url == StrippedOrNone(Get(payload, "AbstractURL"))
        items == (IF abstract.some
                  THEN <<[text |-> abstract.v, url |-> abstract_url]>>
                  ELSE <<>>)
                 \o ExtractRelatedTopics(Get(payload, "RelatedTopics"))
    IN [index \in 1..Len(items) |-> NumberedLine(index, items[index])]

\* _format_results
FormatResults(payload, max_results) ==
    LET abstract == StrippedOrNone(Get(payload, "AbstractText"))
        abstract_url == StrippedOrNone(Get(payload, "AbstractURL"))
        items == (IF abstract.some
                  THEN <<[text |-> abstract.v, url |-> abstract_url]>>
                  ELSE <<>>)
                 \o ExtractRelatedTopics(Get(payload, "RelatedTopics"))
        shown == IF Len(items) < max_results THEN Len(items) ELSE max_results
    IN [index \in 1..shown |-> NumberedLine(index, items[index])]

\* f"No search results found for: {query}"
NoResultsFor(query) ==
    <<"N", "o", " ", "s", "e", "a", "r", "c", "h", " ", "r", "e", "s",
      "u", "l", "t", "s", " ", "f", "o", "u", "n", "d", " ", "f", "o",
      "r", ":", " ">>
      \o query

\* What the search provider does with a request: a JSON object or one of
\* the three httpx failures.
Topic(text, url) == [Text |-> JStr(text), FirstURL |-> JStr(url)]

SearchPayload ==
    [AbstractText |-> JStr(<<" ", "a">>), AbstractURL |-> JStr(<<"u">>),
     RelatedTopics |-> JList(<<Topic(<<"x">>, <<>>), Topic(<<"y">>, <<"v">>),
                               Topic(<<"z">>, <<>>)>>)]

SearchOutcomes ==
    {[kind |-> "ok", payload |-> SearchPayload],
     [kind |-> "ok", payload |-> [RelatedTopics |-> JList(<<>>)]],
     [kind |-> "timeout"], [kind |-> "status"], [kind |-> "transport"]}

\* _search
Search(query, outcome) ==
    IF outcome.kind = "timeout" THEN WebSearchConnectionError(MsgWebTimeout)
    ELSE IF outcome.kind = "status" THEN WebSearchConnectionError(MsgWebStatus)
    ELSE IF outcome.kind = "transport" THEN WebSearchConnectionError(MsgWebFailed)
    ELSE [raised |-> FALSE, value |-> outcome.payload]

\* WebSearchNodeHandler.execute; requests is the list of GET requests
\* _search sent (their q parameter)
WebSearchExecute(context, outcome) ==
    LET query == BuildQuery(context)
        max_results == ReadMaxResults(context)
        payload == Search(query.value, outcome)
        lines == FormatResults(payload.value, max_results.value)
        unsent(exc) == exc @@ [requests |-> <<>>]
        sent(res) == res @@ [requests |-> <<query.value>>]
    IN IF query.raised THEN unsent(query)
       ELSE IF max_results.raised THEN unsent(max_results)
       ELSE IF payload.raised THEN sent(payload)
       ELSE IF lines # <<>> THEN sent([raised |-> FALSE, value |-> Join(lines)])
       ELSE sent([raised |-> FALSE, value |-> NoResultsFor(query.value)])

WebSearchData(max_results) ==
    [label |-> JStr(<<"W">>), max_results |-> JInt(max_results)]

\* ---------------------------------------------------- nodes/registry.py
\* InputNodeHandler.execute
InputNodeExecute(context) == [raised |-> FALSE, value |-> context.input_value]

\* OutputNodeHandler.execute
OutputNodeExecute(context) ==
    [raised |-> FALSE, value |-> Join(context.parent_values)]

\* LLMNodeHandler.execute: the checks, the request and the error mapping of
\* _execute_llm_node, read from the context
LLMNodeExecute(provs, context, outcome) ==
    LET r == ExecuteLLMNode(provs, context.workflow_owner_id, context.node_data,
                            context.parent_values, outcome)
    IN IF r.raised
       THEN [raised |-> TRUE, error |-> r.error, message |-> r.message]
       ELSE [raised |-> FALSE, value |-> r.value]

\* the keys of NodeHandlerRegistry._handlers
RegisteredTypes == {INPUT, LLM, WEB_SEARCH, OUTPUT}

\* NodeHandlerRegistry.execute; outcome is what the node's outbound request
\* meets, for the types that make one
RegistryExecute(node_type, provs, context, outcome) ==
    IF node_type \notin RegisteredTypes
    THEN ExecutionGraphValidationError(MsgUnsupported)
    ELSE IF node_type = INPUT THEN InputNodeExecute(context)
    ELSE IF node_type = LLM THEN LLMNodeExecute(provs, context, outcome)
    ELSE IF node_type = WEB_SEARCH THEN WebSearchExecute(context, outcome)
    ELSE OutputNodeExecute(context)

MsgExecutionNotFound == "Execution not found"
MsgWorkflowNotFound == "Workflow not found"

\* run_execution from its two lookups on: execs are the Execution rows, wf
\* the Workflow row execution.workflow_id names (Null when it is gone).
RunExecutionOf(execs, execution_id, wf, ns, es, provs, llm) ==
    IF execution_id \notin DOMAIN execs
    THEN Raise("ExecutionNotFoundError", MsgExecutionNotFound)
           @@ EmptyLog @@ [outputs_by_node |-> <<>>]
    ELSE IF IsNull(wf)
    THEN Raise("WorkflowNotFoundError", MsgWorkflowNotFound)
           @@ EmptyLog @@ [outputs_by_node |-> <<>>]
    ELSE RunExecution(execs[execution_id], ns, es, provs, llm)

\* ------------------------------------------------------ Execution rows
NewExecution(id, input_data) ==
    [id |-> id, status |-> RUNNING, input_data |-> input_data,
     output_data |-> Null, error |-> None, finished_at |-> None,
     prefect_flow_run_id |-> None]

\* Mutant of MarkExecutionSuccess: the update does not clear error.
MarkExecutionSuccess_KeepError(row, output_data) ==
    [row EXCEPT !.status = SUCCESS, !.output_data = output_data,
                !.finished_at = "datetime"]

\* the row update of mark_execution_success
MarkExecutionSuccess(row, output_data) ==
    [row EXCEPT !.status = SUCCESS, !.output_data = output_data,
                !.error = None, !.finished_at = "datetime"]

\* Mutant of MarkExecutionFailed: finished_at is not set.
MarkExecutionFailed_NoFinishedAt(row, error) ==
    [row EXCEPT !.status = FAILED, !.error = error]

\* the row update of mark_execution_failed
MarkExecutionFailed(row, error) ==
    [row EXCEPT !.status = FAILED, !.error = error,
                !.finished_at = "datetime"]

\* the row update of create_execution's except ExecutionDispatchError
MarkDispatchFailed(row, exc) ==
    [row EXCEPT !.status = FAILED, !.error = exc.message,
                !.finished_at = "datetime"]

\* Mutant of SetFlowRunId: the update writes back the row as create_execution
\* created it, with the flow run id.
SetFlowRunId_CreatedRow(row, prefect_flow_run_id) ==
    [row EXCEPT !.prefect_flow_run_id = prefect_flow_run_id,
                !.status = RUNNING, !.output_data = Null, !.error = None,
                !.finished_at = None]

\* the row update of create_execution after a dispatch that returned
SetFlowRunId(row, prefect_flow_run_id) ==
    [row EXCEPT !.prefect_flow_run_id = prefect_flow_run_id]

\* Mutant of Finalize: only an error of run_execution is recorded, not one
\* raised while the success is persisted.
Finalize_RunErrorsOnly(row, result, saved) ==
    IF result.raised THEN MarkExecutionFailed(row, StrOfError(result))
    ELSE IF saved THEN MarkExecutionSuccess(row, result.output)
    ELSE row

\* execute_and_finalize on a row: the row it leaves.  saved is FALSE when
\* the update of mark_execution_success raises.
Finalize(row, result, saved) ==
    IF result.raised THEN MarkExecutionFailed(row, StrOfError(result))
    ELSE IF saved THEN MarkExecutionSuccess(row, result.output)
    ELSE MarkExecutionFailed(row, MsgNotPersisted)

\* The rows after execute_and_finalize: update_by changes the row with the
\* id, and no row when there is none (mark_execution_failed then raises
\* ExecutionNotFoundError).
FinalizeRows(execs, execution_id, result, saved) ==
    IF execution_id \in DOMAIN execs
    THEN [execs EXCEPT ![execution_id] = Finalize(@, result, saved)]
    ELSE execs

\* What execute_and_finalize raises to the worker: the exception of the try
\* block, re-raised after mark_execution_failed, unless
\* mark_execution_failed itself raises ExecutionNotFoundError for a row that
\* does not exist.
ExecuteAndFinalizeRaises(execs, execution_id, result, saved) ==
    IF result.raised
    THEN IF execution_id \in DOMAIN execs
         THEN Raise(result.error, result.message)
         ELSE Raise("ExecutionNotFoundError", MsgExecutionNotFound)
    ELSE IF saved THEN [raised |-> FALSE]
    ELSE Raise("Exception", MsgNotPersisted)

\* ---------------------------------------------------------- workflows
Values == {<<>>, <<"h", "i">>}

EmptyDict == <<>>

InputPayloads ==
    {Null, EmptyDict, [value |-> JInt(1)]} \cup {[value |-> JStr(v)] : v \in Values}

\* what create_execution can be handed as input_data
RequestPayloads == InputPayloads \cup {NotAnObject}

WfInputOutput ==
    [nodes |-> <<Node(1, INPUT, InputData), Node(2, OUTPUT, OutputData)>>,
     edges |-> <<Edge(1, 2)>>]

WfInputLLMOutput(provider_id) ==
    [nodes |-> <<Node(1, INPUT, InputData), Node(2, OUTPUT, OutputData),
                 Node(3, LLM, LLMData(provider_id))>>,
     edges |-> <<Edge(1, 3), Edge(3, 2)>>]

WfTwoInputs ==
    [nodes |-> <<Node(1, INPUT, InputData), Node(2, INPUT, InputData),
                 Node(3, OUTPUT, OutputData)>>,
     edges |-> <<Edge(1, 3), Edge(2, 3)>>]

Workflows ==
    {WfInputOutput, WfInputLLMOutput(1), WfInputLLMOutput(2), WfTwoInputs}

Provider(id, user_id) == [id |-> id, user_id |-> user_id]

LLMNodeIds(ns) == {ns[i].id : i \in {j \in 1..Len(ns) : ns[j].type = LLM}}

ExecutionIds == 1..Len(executions)

\* how many invocations of execute_and_finalize repeated an earlier one
RECURSIVE Reruns(_)
Reruns(rs) ==
    IF rs = <<>> THEN 0
    ELSE (IF Head(rs).count > 1 THEN Head(rs).count - 1 ELSE 0)
         + Reruns(Tail(rs))

InitialProviders == {Provider(1, Owner), Provider(2, Stranger)}

\* The arguments run_execution can be given: a workflow, the providers that
\* are left, the input_data of a row, one outcome for each LLM node.
RunArguments ==
    UNION {
      {[nodes |-> wf.nodes, edges |-> wf.edges, providers |-> provs,
        input_data |-> input_data, llm |-> llm] :
          provs \in SUBSET InitialProviders, input_data \in InputPayloads,
          llm \in [LLMNodeIds(wf.nodes) -> RunOutcomes]} : wf \in Workflows}

\* run_execution, evaluated once for each of its arguments
RunExecutionResults ==
    [a \in RunArguments |->
       RunExecution([input_data |-> a.input_data], a.nodes, a.edges,
                    a.providers, a.llm)]

RunExecutionResult(execution, ns, es, provs, llm) ==
    RunExecutionResults[[nodes |-> ns, edges |-> es, providers |-> provs,
                         input_data |-> execution.input_data, llm |-> llm]]

\* ----------------------------------------------------------------- Spec
Init ==
    /\ workflow = TheWorkflow
    /\ \E wf \in Workflows : nodes = wf.nodes /\ edges = wf.edges
    /\ graph = NotBuilt
    /\ providers = InitialProviders
    /\ executions = <<>>
    /\ calls = <<>>
    /\ flow_runs = <<>>
    /\ runs = <<>>
    /\ response = [kind |-> "none"]

CreateExecutionChecks_GraphOnly(ns, es, input_data) ==
    LET g == BuildGraphContext(ns, es)
    IN IF g.raised THEN g ELSE [raised |-> FALSE]

\* The two checks of create_execution that precede the creation of the
\* row: what they raise, if anything.
CreateExecutionChecks(ns, es, input_data) ==
    LET g == BuildGraphContext(ns, es)
        v == ValidateInputPayload(input_data)
    IN IF g.raised THEN g
       ELSE IF v.raised THEN v
       ELSE [raised |-> FALSE]

\* create_execution up to the creation of the RUNNING row: the graph is
\* built and the payload validated first, and either raises before any row
\* is written.
CreateExecution(input_data) ==
    /\ Len(executions) < MaxExecutions
    /\ LET checks == CreateExecutionChecks(nodes, edges, input_data)
       IN IF checks.raised
          THEN /\ response' = [kind |-> "raised", exc |-> checks]
               /\ UNCHANGED <<executions, calls, flow_runs, runs>>
          ELSE /\ executions' =
                    Append(executions,
                           NewExecution(Len(executions) + 1, input_data))
               /\ calls' = Append(calls, "dispatching")
               /\ flow_runs' = Append(flow_runs, FALSE)
               /\ runs' = Append(runs, [count |-> 0, chats |-> <<>>,
                                             persist_failed |-> FALSE])
               /\ UNCHANGED response
    /\ UNCHANGED <<workflow, nodes, edges, graph, providers>>

\* PrefectExecutionRunner.dispatch: run_deployment creates the flow run; the
\* worker may pick it up from here on, while dispatch still waits (up to
\* its timeout) for the run to finish.
DispatchSubmit(e) ==
    /\ e \in ExecutionIds
    /\ calls[e] = "dispatching"
    /\ calls' = [calls EXCEPT ![e] = "submitted"]
    /\ flow_runs' = [flow_runs EXCEPT ![e] = TRUE]
    /\ UNCHANGED <<workflow, nodes, edges, graph, providers, executions, runs, response>>

\* dispatch raises (before the flow run exists, or while waiting for it):
\* create_execution marks the row FAILED and re-raises.
DispatchRaises(e) ==
    /\ e \in ExecutionIds
    /\ calls[e] \in {"dispatching", "submitted"}
    /\ LET exc == ExecutionDispatchError(MsgDispatch)
       IN /\ executions' =
               [executions EXCEPT ![e] = MarkDispatchFailed(@, exc)]
          /\ response' = [kind |-> "raised", exc |-> exc]
    /\ calls' = [calls EXCEPT ![e] = "raised"]
    /\ UNCHANGED <<workflow, nodes, edges, graph, providers, flow_runs, runs>>

\* dispatch returns the flow run id: create_execution stores it and returns
\* the updated row.
DispatchReturns(e) ==
    /\ e \in ExecutionIds
    /\ calls[e] = "submitted"
    /\ LET updated_execution == SetFlowRunId(executions[e], "flow-run")
       IN /\ executions' = [executions EXCEPT ![e] = updated_execution]
          /\ response' = [kind |-> "returned", execution |-> updated_execution]
    /\ calls' = [calls EXCEPT ![e] = "returned"]
    /\ UNCHANGED <<workflow, nodes, edges, graph, providers, flow_runs, runs>>

\* The worker runs the flow run_workflow_execution(execution_id):
\* execute_and_finalize = run_execution, then mark_execution_success, and
\* mark_execution_failed on any exception.  A flow run can be run again
\* (nothing in the flow or in execute_and_finalize looks at the row's
\* status); MaxReruns bounds the repetitions.  The result of run_execution is read
\* from RunExecutionResults.
ExecuteAndFinalize(e, llm, saved) ==
    /\ e \in ExecutionIds
    /\ flow_runs[e]
    /\ runs[e].count = 0 \/ Reruns(runs) < MaxReruns
    /\ UNCHANGED <<workflow, nodes, edges, graph, providers, calls, flow_runs, response>>
    /\ LET result == RunExecutionResult(executions[e], nodes, edges, providers,
                                        llm)
           updated == Finalize(executions[e], result, saved)
       IN /\ runs' = [runs EXCEPT ![e] =
                        [count |-> @.count + 1, chats |-> result.chats,
                         persist_failed |-> ~result.raised /\ ~saved]]
          /\ executions' = [executions EXCEPT ![e] = updated]

\* delete_llm_provider, called by the workflow's owner
DeleteLLMProvider(p) ==
    /\ p \in providers
    /\ p.user_id = Owner
    /\ providers' = providers \ {p}
    /\ UNCHANGED <<workflow, nodes, edges, graph, executions, calls, flow_runs, runs,
                   response>>

Next ==
    \/ \E input_data \in RequestPayloads : CreateExecution(input_data)
    \/ \E e \in 1..MaxExecutions : DispatchSubmit(e)
    \/ \E e \in 1..MaxExecutions : DispatchRaises(e)
    \/ \E e \in 1..MaxExecutions : DispatchReturns(e)
    \/ \E e \in 1..MaxExecutions :
         \E llm \in [LLMNodeIds(nodes) -> RunOutcomes], saved \in BOOLEAN :
            ExecuteAndFinalize(e, llm, saved)
    \/ \E p \in providers : DeleteLLMProvider(p)

Spec == Init /\ [][Next]_vars

\* A create_execution call that has created its row goes on to the end of
\* its dispatch, and the worker goes on running flow runs while one waits.
HandlerStep(e) == DispatchSubmit(e) \/ DispatchRaises(e) \/ DispatchReturns(e)
WorkerStep(e) ==
    \E llm \in [LLMNodeIds(nodes) -> RunOutcomes], saved \in BOOLEAN :
       ExecuteAndFinalize(e, llm, saved)

FairSpec ==
    /\ Spec
    /\ WF_vars(\E e \in 1..MaxExecutions : HandlerStep(e))
    /\ WF_vars(\E e \in 1..MaxExecutions : WorkerStep(e))

\* -------------------------------------------------------------- SpecRun
\* One run of execute_and_finalize on a freshly created row, for every
\* graph over two or three nodes with one INPUT and one OUTPUT node and up
\* to MaxRunEdges edges.  The graph may have changed since create_execution
\* validated it, so it need not be valid.  The flow run may also find the
\* Workflow row deleted (delete_workflow), with or without the Execution
\* row.
MaxRunEdges == 3

RunNodeData(type) ==
    IF type = WEB_SEARCH THEN WebSearchData(2) ELSE DefaultData(type)

RunNodeLists ==
    UNION {
      {[i \in 1..n |-> Node(i, types[i], RunNodeData(types[i]))] :
          types \in {t \in [1..n -> NodeType \cup {WEB_SEARCH}] :
                       /\ Cardinality({i \in 1..n : t[i] = INPUT}) = 1
                       /\ Cardinality({i \in 1..n : t[i] = OUTPUT}) = 1}} :
      n \in 2..3}

RunEdgeLists ==
    UNION {[1..n -> {Edge(source, target) : source \in 1..3, target \in 1..3}] :
             n \in 0..MaxRunEdges}

InitRun ==
    /\ \/ /\ workflow = TheWorkflow
          /\ nodes \in RunNodeLists
          /\ edges \in RunEdgeLists
          /\ \E value \in Values :
                executions = <<NewExecution(1, [value |-> JStr(value)])>>
       \/ /\ workflow = Null
          /\ nodes = WfInputOutput.nodes
          /\ edges = WfInputOutput.edges
          /\ \E value \in Values :
                executions \in {<<>>, <<NewExecution(1, [value |-> JStr(value)])>>}
    /\ graph = NotBuilt
    /\ providers = InitialProviders
    /\ calls = <<"returned">>
    /\ flow_runs = <<TRUE>>
    /\ runs = <<>>
    /\ response = [kind |-> "none"]

\* execute_and_finalize(1), the row's first run; graph and response keep
\* what _build_graph_context and run_execution returned or raised.
Run(llm, saved) ==
    /\ runs = <<>>
    /\ LET result == RunExecutionOf(executions, 1, workflow, nodes, edges,
                                    providers, llm)
       IN /\ executions' = FinalizeRows(executions, 1, result, saved)
          /\ runs' = <<[count |-> 1, chats |-> result.chats,
                        persist_failed |-> ~result.raised /\ ~saved]>>
          /\ response' = [kind |-> "ran", result |-> result, llm |-> llm,
                           raised |-> ExecuteAndFinalizeRaises(executions, 1,
                                                               result, saved)]
    /\ graph' = IF executions = <<>> \/ IsNull(workflow)
                THEN graph
                ELSE BuildGraphContext(nodes, edges)
    /\ UNCHANGED <<workflow, nodes, edges, providers, calls, flow_runs>>

NextRun ==
    \E llm \in [LLMNodeIds(nodes) -> LLMOutcomes], saved \in BOOLEAN :
       Run(llm, saved)

SpecRun == InitRun /\ [][NextRun]_vars

\* ------------------------------------------------------------- SpecEdit
\* One execution of a workflow whose edges the owner goes on editing
\* (create_edge, delete_edge) while the execution is created, dispatched
\* and run: the run reads the rows as they are when the worker gets to it.
MaxEditedEdges == 2

InitEdit ==
    /\ workflow = TheWorkflow
    /\ \E wf \in {WfInputOutput, WfInputLLMOutput(1)} :
          nodes = wf.nodes /\ edges = wf.edges
    /\ graph = NotBuilt
    /\ providers = InitialProviders
    /\ executions = <<>>
    /\ calls = <<>>
    /\ flow_runs = <<>>
    /\ runs = <<>>
    /\ response = [kind |-> "none"]

\* create_execution, for the first execution of the workflow
CreateFirstExecution(input_data) ==
    /\ executions = <<>>
    /\ CreateExecution(input_data)

\* create_edge by the owner: both nodes are nodes of the workflow
CreateEdge(source_node_id, target_node_id) ==
    /\ Len(edges) < MaxEditedEdges
    /\ source_node_id \in Range(NodeIds(nodes))
    /\ target_node_id \in Range(NodeIds(nodes))
    /\ edges' = Append(edges, Edge(source_node_id, target_node_id))
    /\ UNCHANGED <<workflow, nodes, graph, providers, executions, calls,
                   flow_runs, runs, response>>

\* delete_edge by the owner
DeleteEdge(i) ==
    /\ i \in 1..Len(edges)
    /\ edges' = SubSeq(edges, 1, i - 1) \o SubSeq(edges, i + 1, Len(edges))
    /\ UNCHANGED <<workflow, nodes, graph, providers, executions, calls,
                   flow_runs, runs, response>>

\* The worker runs the flow run of execution 1: execute_and_finalize on
\* the rows as they are now; graph keeps what _build_graph_context made of
\* them.
RunEdited(llm, saved) ==
    /\ 1 \in ExecutionIds
    /\ flow_runs[1]
    /\ runs[1].count = 0
    /\ LET result == RunExecutionOf(executions, 1, workflow, nodes, edges,
                                    providers, llm)
       IN /\ executions' = FinalizeRows(executions, 1, result, saved)
          /\ runs' = [runs EXCEPT ![1] =
                        [count |-> 1, chats |-> result.chats,
                         persist_failed |-> ~result.raised /\ ~saved]]
    /\ graph' = BuildGraphContext(nodes, edges)
    /\ UNCHANGED <<workflow, nodes, edges, providers, calls, flow_runs,
                   response>>

NextEdit ==
    \/ \E input_data \in RequestPayloads : CreateFirstExecution(input_data)
    \/ DispatchSubmit(1)
    \/ DispatchRaises(1)
    \/ DispatchReturns(1)
    \/ \E source_node_id \in 1..MaxNodes, target_node_id \in 1..MaxNodes :
         CreateEdge(source_node_id, target_node_id)
    \/ \E i \in 1..MaxEditedEdges : DeleteEdge(i)
    \/ \E llm \in [LLMNodeIds(nodes) -> LLMOutcomes], saved \in BOOLEAN :
         RunEdited(llm, saved)

SpecEdit == InitEdit /\ [][NextEdit]_vars

\* -------------------------------------------------------------- SpecLLM
\* One call of _execute_llm_node on the data of an LLM node, for node data
\* with each key absent, of a wrong type, or valid, with the owner's
\* provider present or deleted.
Absent == [t |-> "absent"]

\* a dict with the keys whose value is not Absent
DictOf(llm_provider_id, model, system_prompt) ==
    (IF llm_provider_id = Absent THEN <<>>
     ELSE ("llm_provider_id" :> llm_provider_id))
    @@ (IF model = Absent THEN <<>> ELSE ("model" :> model))
    @@ (IF system_prompt = Absent THEN <<>>
        ELSE ("system_prompt" :> system_prompt))

LLMDataCandidates ==
    {DictOf(llm_provider_id, model, system_prompt) :
       llm_provider_id \in {Absent, JNull, JInt(0), JInt(1), JInt(2), JInt(3),
                            JStr(<<"1">>)},
       model \in {Absent, JStr(<<>>), JStr(<<"m">>), JInt(1)},
       system_prompt \in {Absent, JNull, JStr(<<>>), JStr(<<"s">>), JInt(1)}}

\* the parent_values the loop hands to a node: never empty
ParentValueLists == {<<<<"h", "i">>>>, <<<<>>>>, <<<<"a">>, <<"b">>>>}

InitLLM ==
    /\ workflow = TheWorkflow
    /\ \E data \in LLMDataCandidates : nodes = <<Node(1, LLM, data)>>
    /\ edges = <<>>
    /\ graph = NotBuilt
    /\ providers \in {InitialProviders, InitialProviders \ {Provider(1, Owner)}}
    /\ executions = <<>>
    /\ calls = <<>>
    /\ flow_runs = <<>>
    /\ runs = <<>>
    /\ response = [kind |-> "none"]

\* _execute_llm_node(workflow_owner_id=workflow.owner_id,
\* node_data=node.data, parent_values=parent_values)
ExecuteLLM(parent_values, outcome) ==
    /\ response.kind = "none"
    /\ response' = [kind |-> "llm", parent_values |-> parent_values,
                     outcome |-> outcome,
                     result |-> ExecuteLLMNode(providers, workflow.owner_id,
                                               nodes[1].data, parent_values,
                                               outcome)]
    /\ UNCHANGED <<workflow, nodes, edges, graph, providers, executions, calls,
                   flow_runs, runs>>

NextLLM ==
    \E parent_values \in ParentValueLists, outcome \in LLMOutcomes :
       ExecuteLLM(parent_values, outcome)

SpecLLM == InitLLM /\ [][NextLLM]_vars

\* -------------------------------------------------------------- SpecWeb
\* One call of WebSearchNodeHandler.execute, for node data with max_results
\* absent, of a wrong type, out of range or valid, parent_values and an
\* input_value with and without text, and payloads with and without an
\* abstract, with blank texts and with nested topic groups.
WebDataCandidates ==
    {IF max_results = Absent THEN [label |-> JStr(<<"W">>)]
     ELSE [label |-> JStr(<<"W">>), max_results |-> max_results] :
       max_results \in {Absent, JNull, JStr(<<"2">>), JInt(0), JInt(1), JInt(2),
                        JInt(3), JInt(10), JInt(11)}}

WebInputValues == {<<>>, <<" ">>, <<" ", "q", NL>>}

WebParentLists ==
    {<<<<>>>>, <<<<" ">>, <<>>>>, <<<<"p">>>>, <<<<"p">>, <<" ">>>>}

\* a group of related topics
TopicGroup(topics) == [Name |-> JStr(<<"g">>), Topics |-> JList(topics)]

WebPayloads ==
    {SearchPayload,
     [RelatedTopics |-> JList(<<>>)],
     [AbstractText |-> JStr(<<" ">>), AbstractURL |-> JStr(<<"u">>),
      RelatedTopics |-> JNull],
     [AbstractText |-> JStr(<<"a">>), AbstractURL |-> JStr(<<" ">>),
      RelatedTopics |-> JList(<<Topic(<<" ">>, <<"v">>)>>)],
     [AbstractText |-> JInt(1),
      RelatedTopics |->
        JList(<<Topic(<<"x">>, <<"v">>),
                TopicGroup(<<Topic(<<"y">>, <<>>),
                             TopicGroup(<<Topic(<<"z">>, <<>>)>>),
                             Topic(<<>>, <<>>)>>),
                Topic(<<"w">>, <<>>)>>)]}

WebOutcomes ==
    {[kind |-> "ok", payload |-> payload] : payload \in WebPayloads}
    \cup {[kind |-> "timeout"], [kind |-> "status"], [kind |-> "transport"]}

InitWeb ==
    /\ workflow = TheWorkflow
    /\ \E data \in WebDataCandidates : nodes = <<Node(1, WEB_SEARCH, data)>>
    /\ edges = <<>>
    /\ graph = NotBuilt
    /\ providers = InitialProviders
    /\ \E input_value \in WebInputValues :
          executions = <<NewExecution(1, [value |-> JStr(input_value)])>>
    /\ calls = <<>>
    /\ flow_runs = <<>>
    /\ runs = <<>>
    /\ response = [kind |-> "none"]

\* WebSearchNodeHandler.execute(context)
ExecuteWebSearch(parent_values, outcome) ==
    /\ response.kind = "none"
    /\ LET context == [workflow_owner_id |-> workflow.owner_id,
                       node_data |-> nodes[1].data,
                       parent_values |-> parent_values,
                       input_value |-> executions[1].input_data.value.v]
       IN response' = [kind |-> "web", context |-> context,
                       outcome |-> outcome,
                       result |-> WebSearchExecute(context, outcome)]
    /\ UNCHANGED <<workflow, nodes, edges, graph, providers, executions, calls,
                   flow_runs, runs>>

NextWeb ==
    \E parent_values \in WebParentLists, outcome \in WebOutcomes :
       ExecuteWebSearch(parent_values, outcome)

SpecWeb == InitWeb /\ [][NextWeb]_vars

\* =====================================================================
\* Nodes: the catalog of NodeUsecase, get_node_catalog, create_node
\* =====================================================================
\* for node_type in NodeType
NodeTypeMembers == <<INPUT, LLM, OUTPUT>>

MIN_LENGTH == "min_length"
SELECT == "select"
GE == "ge"
LE == "le"

TXT == <<"t", "x", "t">>

NoValidators == <<>>

NodeFieldSpec(name, required, validators, datasource) ==
    [name |-> name, required |-> required, validators |-> validators,
     datasource |-> datasource]

NodeCatalogItem(type, icon_key, has_input, has_output, fields) ==
    [type |-> type, icon_key |-> icon_key,
     graph |-> [has_input |-> has_input, has_output |-> has_output],
     fields |-> fields]

input_fields ==
    <<NodeFieldSpec("label", TRUE, (MIN_LENGTH :> 1), None),
      NodeFieldSpec("format", TRUE, (SELECT :> <<JStr(TXT)>>), None)>>

llm_fields ==
    <<NodeFieldSpec("label", TRUE, (MIN_LENGTH :> 1), None),
      NodeFieldSpec("llm_provider_id", TRUE, (GE :> 1), "llm_provider"),
      NodeFieldSpec("model", TRUE, (MIN_LENGTH :> 1), "llm_model"),
      NodeFieldSpec("system_prompt", TRUE, NoValidators, None)>>

output_fields ==
    <<NodeFieldSpec("label", TRUE, (MIN_LENGTH :> 1), None),
      NodeFieldSpec("format", TRUE, (SELECT :> <<JStr(TXT)>>), None)>>

BuildCatalog_WithoutLLM ==
    (INPUT :> NodeCatalogItem(INPUT, "input", FALSE, TRUE, input_fields))
    @@ (OUTPUT :> NodeCatalogItem(OUTPUT, "output", TRUE, FALSE, output_fields))

\* _build_catalog
BuildCatalog ==
    (INPUT :> NodeCatalogItem(INPUT, "input", FALSE, TRUE, input_fields))
    @@ (LLM :> NodeCatalogItem(LLM, "llm", TRUE, TRUE, llm_fields))
    @@ (OUTPUT :> NodeCatalogItem(OUTPUT, "output", TRUE, FALSE, output_fields))

KeyError == Raise("KeyError", "KeyError")

NodeDataValidationError(errors) ==
    [raised |-> TRUE, error |-> "NodeDataValidationError", message |-> errors]

\* _validate_node_field: the errors it appends
ValidateNodeField(field, value) ==
    LET validators == field.validators
        failed(validator) == <<[validator |-> validator, field |-> field.name]>>
    IN (IF /\ MIN_LENGTH \in DOMAIN validators
           /\ (value.t # "str" \/ Len(value.v) < validators[MIN_LENGTH])
        THEN failed(MIN_LENGTH) ELSE <<>>)
       \o (IF /\ SELECT \in DOMAIN validators
              /\ ~\E allowed \in Range(validators[SELECT]) :
                     allowed.t = value.t /\ allowed.v = value.v
           THEN failed(SELECT) ELSE <<>>)
       \o (IF /\ GE \in DOMAIN validators
              /\ (value.t # "int" \/ value.v < validators[GE])
           THEN failed(GE) ELSE <<>>)
       \o (IF /\ LE \in DOMAIN validators
              /\ (value.t # "int" \/ value.v > validators[LE])
           THEN failed(LE) ELSE <<>>)

\* the for loop of _validate_node_data over spec.fields
RECURSIVE FieldErrors(_, _)
FieldErrors(fields, data) ==
    IF fields = <<>> THEN <<>>
    ELSE LET field == Head(fields)
         IN (IF field.name \notin DOMAIN data
             THEN IF field.required
                  THEN <<[validator |-> "required", field |-> field.name]>>
                  ELSE <<>>
             ELSE ValidateNodeField(field, data[field.name]))
            \o FieldErrors(Tail(fields), data)

\* _validate_node_data
ValidateNodeData(catalog, node_type, data) ==
    IF node_type \notin DOMAIN catalog THEN KeyError
    ELSE LET spec == catalog[node_type]
             names == {spec.fields[i].name : i \in 1..Len(spec.fields)}
             unexpected == DOMAIN data \ names
             errors ==
               (IF unexpected # {}
                THEN <<[validator |-> "unexpected", fields |-> unexpected]>>
                ELSE <<>>)
               \o FieldErrors(spec.fields, data)
         IN IF errors # <<>> THEN NodeDataValidationError(errors)
            ELSE [raised |-> FALSE, value |-> data]

\* the for loop of _validate_external_references over spec.fields
RECURSIVE ReferenceErrors(_, _, _, _)
ReferenceErrors(fields, provs, user_id, data) ==
    IF fields = <<>> THEN [raised |-> FALSE]
    ELSE LET field == Head(fields)
             rest == ReferenceErrors(Tail(fields), provs, user_id, data)
         IN IF field.datasource = None \/ field.name \notin DOMAIN data
            THEN rest
            ELSE IF field.datasource # "llm_provider" THEN rest
            ELSE LET provider_id == data[field.name]
                 IN IF provider_id.t # "int" \/ provider_id.v <= 0
                    THEN NodeDataValidationError(
                           <<[validator |-> "provider_id", field |-> field.name]>>)
                    ELSE IF ProviderGetBy(provs, provider_id.v, user_id) = {}
                    THEN Raise("LLMProviderNotFoundError", "LLM provider not found")
                    ELSE rest

\* _validate_external_references
ValidateExternalReferences(catalog, provs, user_id, node_type, data) ==
    IF node_type \notin DOMAIN catalog THEN KeyError
    ELSE ReferenceErrors(catalog[node_type].fields, provs, user_id, data)

\* get_node_catalog
GetNodeCatalog(catalog) ==
    IF \E i \in 1..Len(NodeTypeMembers) : NodeTypeMembers[i] \notin DOMAIN catalog
    THEN KeyError
    ELSE [raised |-> FALSE,
          value |-> [i \in 1..Len(NodeTypeMembers) |-> catalog[NodeTypeMembers[i]]]]

\* what create_node raises, if anything, before it writes the row
CreateNodeChecks(catalog, wf, provs, user_id, node_type, data) ==
    LET validated == ValidateNodeData(catalog, node_type, data)
        references ==
          ValidateExternalReferences(catalog, provs, user_id, node_type, data)
    IN IF IsNull(wf) \/ wf.owner_id # user_id
       THEN Raise("WorkflowNotFoundError", MsgWorkflowNotFound)
       ELSE IF validated.raised THEN validated
       ELSE IF references.raised THEN references
       ELSE [raised |-> FALSE]

\* node data a request may carry
NodeDataCandidates ==
    {InputData, OutputData, LLMData(1), LLMData(2), LLMData(0), EmptyDict,
     [label |-> JStr(<<>>), format |-> JStr(TXT)],
     [label |-> JStr(<<"I">>), format |-> JStr(<<"p", "d", "f">>)],
     [label |-> JStr(<<"I">>), format |-> JStr(TXT), extra |-> JNull]}

InitNode ==
    /\ workflow = TheWorkflow
    /\ nodes = <<>>
    /\ edges = <<>>
    /\ graph = NotBuilt
    /\ providers = InitialProviders
    /\ executions = <<>>
    /\ calls = <<>>
    /\ flow_runs = <<>>
    /\ runs = <<>>
    /\ response = [kind |-> "none"]

\* self._node_catalog of the NodeUsecase instance
NodeCatalog == BuildCatalog

\* GET /nodes/catalog
GetNodeCatalogCall ==
    /\ LET items == GetNodeCatalog(NodeCatalog)
       IN response' = IF items.raised
                      THEN [kind |-> "raised", call |-> "get_node_catalog",
                            exc |-> items]
                      ELSE [kind |-> "catalog", items |-> items.value]
    /\ UNCHANGED <<workflow, nodes, edges, graph, providers, executions, calls,
                   flow_runs, runs>>

\* create_node
CreateNode(user_id, node_type, data) ==
    /\ Len(nodes) < MaxNodes
    /\ LET request == [user_id |-> user_id, type |-> node_type, data |-> data]
           checks == CreateNodeChecks(NodeCatalog, workflow, providers, user_id,
                                      node_type, data)
           node == Node(Len(nodes) + 1, node_type, data)
       IN IF checks.raised
          THEN /\ response' = [kind |-> "raised", call |-> "create_node",
                                exc |-> checks, request |-> request]
               /\ UNCHANGED nodes
          ELSE /\ response' = [kind |-> "created", node |-> node,
                                request |-> request]
               /\ nodes' = Append(nodes, node)
    /\ UNCHANGED <<workflow, edges, graph, providers, executions, calls,
                   flow_runs, runs>>

NextNode ==
    \/ GetNodeCatalogCall
    \/ \E user_id \in {Owner, Stranger}, node_type \in NodeType,
          data \in NodeDataCandidates :
          CreateNode(user_id, node_type, data)

SpecNode == InitNode /\ [][NextNode]_vars

\* =====================================================================
\* Claims about Execution records (checked under Spec and FairSpec)
\* =====================================================================
\* the step is an execute_and_finalize of execution e
RunStep(e) == runs'[e].count = runs[e].count + 1

NodeIdsOfType(type) ==
    {nodes[i].id : i \in {j \in 1..Len(nodes) : nodes[j].type = type}}

\* the workflow is exactly Input --edge--> Output
IsInputOutputGraph ==
    /\ Len(nodes) = 2 /\ Len(edges) = 1
    /\ \E i \in NodeIdsOfType(INPUT), o \in NodeIdsOfType(OUTPUT) :
          edges[1] = Edge(i, o)

\* the workflow is exactly Input -> LLM -> Output
IsInputLLMOutputGraph ==
    /\ Len(nodes) = 3 /\ Len(edges) = 2
    /\ \E i \in NodeIdsOfType(INPUT), l \in NodeIdsOfType(LLM),
          o \in NodeIdsOfType(OUTPUT) :
          Range(edges) = {Edge(i, l), Edge(l, o)}

\* no LLM node of the workflow references a provider its owner has
NoOwnedProvider ==
    \A i \in 1..Len(nodes) :
       nodes[i].type = LLM
       => ~\E p \in providers :
             /\ p.user_id = Owner
             /\ nodes[i].data.llm_provider_id = JInt(p.id)

\* C5: every Execution row created as RUNNING eventually has status SUCCESS
\* or FAILED, whichever way the dispatch and the run go (request handling
\* and the worker being fair).
C5_EventuallyTerminal ==
    \A e \in 1..MaxExecutions :
       (e \in ExecutionIds /\ executions[e].status = RUNNING)
       ~> (e \in ExecutionIds /\ executions[e].status \in Terminal)

\* a run whose success could not be persisted left the row FAILED
C5_Witness ==
    \E e \in ExecutionIds :
       /\ runs[e].count > 0
       /\ runs[e].persist_failed
       /\ executions[e].status = FAILED
       /\ executions[e].error = MsgNotPersisted

\* C6 as stated: the status of a row changes only from RUNNING to SUCCESS or
\* FAILED, so it changes once and stays as it is once terminal.
C6_Original ==
    [][\A e \in ExecutionIds :
          executions'[e].status # executions[e].status
          => /\ executions[e].status = RUNNING
             /\ executions'[e].status \in Terminal]_vars

\* C7 as stated: output_data is set exactly when the status is SUCCESS and
\* error is set exactly when the status is FAILED.
C7_Original ==
    \A e \in ExecutionIds :
       /\ (executions[e].output_data # Null) <=> (executions[e].status = SUCCESS)
       /\ (executions[e].error # None) <=> (executions[e].status = FAILED)

\* C8 as stated: the execution create_execution returns is finalized: its
\* status is SUCCESS or FAILED and it carries the output or the error.
C8_Original ==
    response.kind = "returned"
    => /\ response.execution.status \in Terminal
       /\ response.execution.status = SUCCESS
            => response.execution.output_data # Null
       /\ response.execution.status = FAILED
            => response.execution.error # None

\* C9: an execute_and_finalize of an execution whose workflow is exactly
\* Input -> Output leaves the row SUCCESS with output_data = {value: v}, v
\* the row's input value, and error null (the success update not raising).
C9_InputOutputRun ==
    [][\A e \in ExecutionIds :
          (RunStep(e) /\ IsInputOutputGraph /\ ~runs'[e].persist_failed)
          => /\ executions'[e].status = SUCCESS
             /\ executions'[e].output_data
                  = [value |-> executions[e].input_data.value.v]
             /\ executions'[e].error = None]_vars

\* the run wrote SUCCESS over the FAILED of a dispatch that had raised
C9_Witness ==
    \E e \in ExecutionIds :
       /\ IsInputOutputGraph
       /\ runs[e].count > 0
       /\ calls[e] = "raised"
       /\ executions[e].status = SUCCESS
       /\ executions[e].output_data = [value |-> <<"h", "i">>]
       /\ executions[e].error = None

\* C10 as stated: an execute_and_finalize over Input -> LLM -> Output whose
\* LLM node references no provider of the workflow's owner leaves the row
\* FAILED with a non-empty error and a null output_data, and sends no chat
\* request.
C10_Original ==
    [][\A e \in ExecutionIds :
          (RunStep(e) /\ IsInputLLMOutputGraph /\ NoOwnedProvider)
          => /\ executions'[e].status = FAILED
             /\ executions'[e].error \notin {None, ""}
             /\ executions'[e].output_data = Null
             /\ runs'[e].chats = <<>>]_vars

\* C22 as stated: after its creation as RUNNING a row is written once, by
\* the write that finalizes it: every step that changes a row finds it as
\* it was created and leaves it SUCCESS or FAILED, so nothing is written
\* between the two writes or after them.
C22_Original ==
    [][\A e \in ExecutionIds :
          executions'[e] # executions[e]
          => /\ executions[e] = NewExecution(e, executions[e].input_data)
             /\ executions'[e].status \in Terminal]_vars

\* the dispatch of create_execution for row e raises in this step
DispatchRaisesStep(e) == calls[e] # "raised" /\ calls'[e] = "raised"

\* the dispatch of create_execution for row e returns in this step
DispatchReturnsStep(e) == calls[e] # "returned" /\ calls'[e] = "returned"

\* C30: when dispatching the flow run fails, create_execution updates the
\* row to FAILED with the dispatch error's message and a finished_at, and
\* raises ExecutionDispatchError; when dispatch returns, the only column of
\* the row it changes is prefect_flow_run_id: status, output_data, error
\* (and the rest) stay as they are, whatever the worker has written by
\* then.
C30_DispatchOutcomeRecorded ==
    [][\A e \in ExecutionIds :
          /\ DispatchRaisesStep(e)
             => /\ executions'[e].status = FAILED
                /\ executions'[e].error = MsgDispatch
                /\ executions'[e].finished_at # None
                /\ response'.kind = "raised"
                /\ response'.exc.error = "ExecutionDispatchError"
                /\ response'.exc.message = executions'[e].error
          /\ DispatchReturnsStep(e)
             => /\ executions'[e].prefect_flow_run_id # None
                /\ \A column \in DOMAIN executions[e] \ {"prefect_flow_run_id"} :
                      executions'[e][column] = executions[e][column]
                /\ response'.kind = "returned"
                /\ response'.execution = executions'[e]]_vars

\* dispatch raised before the flow run was created: the row is FAILED with
\* the dispatch error, has no flow run id, and the caller got the error
C30_Witness ==
    \E e \in ExecutionIds :
       /\ calls[e] = "raised"
       /\ ~flow_runs[e]
       /\ executions[e].status = FAILED
       /\ executions[e].error = MsgDispatch
       /\ executions[e].finished_at # None
       /\ executions[e].prefect_flow_run_id = None
       /\ response.kind = "raised"
       /\ response.exc.error = "ExecutionDispatchError"

\* =====================================================================
\* Claims about the graph builder (checked under SpecGraph)
\* =====================================================================
\* --------------------------------------- vocabulary of the graph claims
GraphBuilt == "raised" \in DOMAIN graph

EdgePairs == {<<edges[i].source_node_id, edges[i].target_node_id>> :
                i \in 1..Len(edges)}

IdSet == {nodes[i].id : i \in 1..Len(nodes)}

InputIds == {nodes[i].id : i \in {j \in 1..Len(nodes) : nodes[j].type = INPUT}}
OutputIds == {nodes[i].id : i \in {j \in 1..Len(nodes) : nodes[j].type = OUTPUT}}

\* Nodes reachable from a set S along the edge relation, S included.
RECURSIVE ReachFrom(_)
ReachFrom(S) ==
    LET T == S \cup {p[2] : p \in {q \in EdgePairs : q[1] \in S}}
    IN IF T = S THEN S ELSE ReachFrom(T)

Successors(n) == {p[2] : p \in {q \in EdgePairs : q[1] = n}}

HasCycle == \E p \in EdgePairs : p[1] \in ReachFrom(Successors(p[1]))

NoDanglingEdge == \A p \in EdgePairs : p[1] \in IdSet /\ p[2] \in IdSet

OneInputOneOutput == Cardinality(InputIds) = 1 /\ Cardinality(OutputIds) = 1

TheInput == CHOOSE n \in InputIds : TRUE
TheOutput == CHOOSE n \in OutputIds : TRUE

OnInputOutputPath(n) ==
    /\ n \in ReachFrom({TheInput})
    /\ TheOutput \in ReachFrom({n})

FullyConnected == \A n \in IdSet : OnInputOutputPath(n)

\* C1: for one INPUT, one OUTPUT and an acyclic edge set over the nodes in
\* which every node is reachable from the input and reaches the output,
\* _build_graph_context returns a topological_order holding every node id
\* exactly once, with the source of every edge (repeated edges included)
\* at a strictly smaller index than its target.
C1_TopologicalOrder ==
    (/\ GraphBuilt
     /\ OneInputOneOutput
     /\ NoDanglingEdge
     /\ ~HasCycle
     /\ FullyConnected)
    => /\ ~graph.raised
       /\ Len(graph.topological_order) = Len(nodes)
       /\ Range(graph.topological_order) = IdSet
       /\ \A i \in 1..Len(edges) :
             IndexOf(graph.topological_order, edges[i].source_node_id)
               < IndexOf(graph.topological_order, edges[i].target_node_id)

C1_Witness ==
    /\ GraphBuilt
    /\ OneInputOneOutput /\ NoDanglingEdge /\ ~HasCycle /\ FullyConnected
    /\ Len(edges) = 2 /\ edges[1] = edges[2]
    /\ ~graph.raised
    /\ Len(graph.topological_order) = 2

\* C2: whenever the edges contain a directed cycle (a self-loop included),
\* _build_graph_context raises ExecutionGraphValidationError and returns
\* neither a context nor a topological order, and create_execution on that
\* workflow raises the same error kind before it creates a row.
C2_CycleRejected ==
    (GraphBuilt /\ HasCycle)
    => /\ graph.raised
       /\ graph.error = "ExecutionGraphValidationError"
       /\ "topological_order" \notin DOMAIN graph
       /\ \A input_data \in InputPayloads :
             LET checks == CreateExecutionChecks(nodes, edges, input_data)
             IN checks.raised /\ checks.error = "ExecutionGraphValidationError"

C2_Witness ==
    /\ GraphBuilt /\ HasCycle
    /\ OneInputOneOutput /\ NoDanglingEdge
    /\ graph.raised /\ graph.message = MsgCycle

\* C3: whenever the number of INPUT nodes or of OUTPUT nodes is not 1,
\* _build_graph_context raises at one of its node-count checks, which come
\* before the adjacency maps are built and before _topological_order is
\* called, whatever the edges are.
C3_CountRejectedFirst ==
    (GraphBuilt /\ ~OneInputOneOutput)
    => /\ graph.raised
       /\ graph.error = "ExecutionGraphValidationError"
       /\ graph.message =
            (IF nodes = <<>> THEN MsgNoNodes
             ELSE IF Cardinality(InputIds) # 1 THEN MsgInputCount
             ELSE MsgOutputCount)

C3_Witness ==
    /\ GraphBuilt
    /\ Cardinality(InputIds) = 2
    /\ ~NoDanglingEdge
    /\ HasCycle
    /\ graph.raised /\ graph.message = MsgInputCount

\* C4 as stated: one INPUT, one OUTPUT, no dangling edge and a node off the
\* input->output path gives the connectivity error.
C4_Original ==
    (GraphBuilt /\ OneInputOneOutput /\ NoDanglingEdge /\ ~FullyConnected)
    => graph.raised /\ graph.message = MsgConnectivity

\* C4 amended: with one INPUT, one OUTPUT and no dangling edge, a node that
\* is not reachable from the input or does not reach the output makes the
\* build fail with ExecutionGraphValidationError: with the connectivity
\* message when the edges are acyclic, with the cycle message otherwise.
C4_ConnectivityRejected ==
    (GraphBuilt /\ OneInputOneOutput /\ NoDanglingEdge /\ ~FullyConnected)
    => /\ graph.raised
       /\ graph.error = "ExecutionGraphValidationError"
       /\ graph.message = (IF HasCycle THEN MsgCycle ELSE MsgConnectivity)

\* a node that satisfies exactly one of the two directions is rejected
C4_Witness ==
    /\ GraphBuilt /\ OneInputOneOutput /\ NoDanglingEdge /\ ~HasCycle
    /\ \E n \in IdSet : /\ n \in ReachFrom({TheInput})
                        /\ TheOutput \notin ReachFrom({n})
    /\ graph.raised /\ graph.message = MsgConnectivity

\* the message of the first rule the rows break, in the order: empty node
\* set, INPUT count, OUTPUT count, edge with a missing node reference,
\* cycle, connectivity; None when they break no rule
FirstBrokenRule ==
    IF nodes = <<>> THEN MsgNoNodes
    ELSE IF Cardinality(InputIds) # 1 THEN MsgInputCount
    ELSE IF Cardinality(OutputIds) # 1 THEN MsgOutputCount
    ELSE IF ~NoDanglingEdge THEN MsgMissingRef
    ELSE IF HasCycle THEN MsgCycle
    ELSE IF ~FullyConnected THEN MsgConnectivity
    ELSE None

\* the keys of the context _build_graph_context returns
ContextKeys ==
    {"input_node_id", "output_node_id", "nodes_by_id", "outbound", "inbound",
     "topological_order"}

\* C19: _build_graph_context either raises ExecutionGraphValidationError
\* and returns nothing, or returns the complete context (all six keys,
\* every node in each map and in the order); it raises exactly when the
\* rows break a rule, with the message of the first rule broken in the
\* order empty node set, INPUT count, OUTPUT count, edge with a missing
\* node reference, cycle, connectivity.
C19_RaisesFirstBrokenRuleOrReturnsAll ==
    GraphBuilt
    => IF FirstBrokenRule = None
       THEN /\ ~graph.raised
            /\ DOMAIN graph = ContextKeys \cup {"raised"}
            /\ graph.input_node_id = TheInput
            /\ graph.output_node_id = TheOutput
            /\ DOMAIN graph.nodes_by_id = IdSet
            /\ DOMAIN graph.outbound = IdSet
            /\ DOMAIN graph.inbound = IdSet
            /\ Range(graph.topological_order) = IdSet
       ELSE /\ graph.raised
            /\ DOMAIN graph = {"raised", "error", "message"}
            /\ graph.error = "ExecutionGraphValidationError"
            /\ graph.message = FirstBrokenRule

\* rows that break the last three rules at once are rejected for the edge
\* with a missing node reference
C19_Witness ==
    /\ GraphBuilt /\ OneInputOneOutput
    /\ ~NoDanglingEdge /\ HasCycle /\ ~FullyConnected
    /\ graph.raised /\ graph.message = MsgMissingRef
    /\ DOMAIN graph = {"raised", "error", "message"}

\* the edge rows into a node and out of it
EdgesInto(n) == {i \in 1..Len(edges) : edges[i].target_node_id = n}
EdgesOutOf(n) == {i \in 1..Len(edges) : edges[i].source_node_id = n}

\* C27: in every context _build_graph_context returns, the input node is
\* the only node without an inbound edge and is the first element of
\* topological_order, and the output node is the only node without an
\* outbound edge and is the last element.
C27_InputFirstOutputLast ==
    (GraphBuilt /\ ~graph.raised)
    => LET order == graph.topological_order
       IN /\ order[1] = graph.input_node_id
          /\ order[Len(order)] = graph.output_node_id
          /\ graph.nodes_by_id[graph.input_node_id].type = INPUT
          /\ graph.nodes_by_id[graph.output_node_id].type = OUTPUT
          /\ \A n \in IdSet :
                /\ (EdgesInto(n) = {}) <=> (n = graph.input_node_id)
                /\ (EdgesOutOf(n) = {}) <=> (n = graph.output_node_id)
                /\ (graph.inbound[n] = <<>>) <=> (n = graph.input_node_id)
                /\ (graph.outbound[n] = <<>>) <=> (n = graph.output_node_id)

\* a context for three nodes whose input node is the last row and whose
\* output node is the first
C27_Witness ==
    /\ GraphBuilt /\ ~graph.raised
    /\ Len(nodes) = 3
    /\ graph.input_node_id = 3
    /\ graph.output_node_id = 1
    /\ graph.topological_order = <<3, 2, 1>>

\* =====================================================================
\* Claims about create_execution and the run (checked under Spec)
\* =====================================================================
\* the graph of the workflow satisfies every rule of the execution graph
GraphIsValid ==
    /\ nodes # <<>>
    /\ OneInputOneOutput
    /\ NoDanglingEdge
    /\ ~HasCycle
    /\ FullyConnected

\* the payload is an object whose 'value' is a string
PayloadIsValid(input_data) ==
    /\ IsDict(input_data)
    /\ "value" \in DOMAIN input_data
    /\ input_data.value.t = "str"

\* the step is a create_execution that raised a validation error
ValidationRaised ==
    /\ response' # response
    /\ response'.kind = "raised"
    /\ response'.exc.error \in {"ExecutionGraphValidationError",
                                "ExecutionInputValidationError"}

\* C11: create_execution creates no Execution row when the graph fails
\* validation or the payload is missing, not an object or has a non-string
\* 'value': a row is only ever added for a valid graph and a valid payload,
\* and a call that raises a validation error leaves the rows unchanged and
\* dispatches no flow run.
C11_RejectedCreatesNothing ==
    [][/\ Len(executions') > Len(executions)
          => /\ GraphIsValid
             /\ PayloadIsValid(executions'[Len(executions')].input_data)
       /\ ValidationRaised
          => /\ executions' = executions
             /\ flow_runs' = flow_runs
             /\ calls' = calls]_vars

\* the workflow with two INPUT nodes was rejected and nothing was written
C11_Witness ==
    /\ response.kind = "raised"
    /\ response.exc = ExecutionGraphValidationError(MsgInputCount)
    /\ Cardinality(InputIds) = 2
    /\ executions = <<>>
    /\ flow_runs = <<>>

\* =====================================================================
\* Claims about one run (checked under SpecRun)
\* =====================================================================
\* execute_and_finalize has run
Ran == runs # <<>>

\* the workflow is exactly Input -> WebSearch -> Output
IsInputWebSearchOutputGraph ==
    /\ Len(nodes) = 3 /\ Len(edges) = 2
    /\ \E i \in NodeIdsOfType(INPUT), w \in NodeIdsOfType(WEB_SEARCH),
          o \in NodeIdsOfType(OUTPUT) :
          Range(edges) = {Edge(i, w), Edge(w, o)}

TheWebSearchNode ==
    nodes[CHOOSE i \in 1..Len(nodes) : nodes[i].type = WEB_SEARCH]

\* the context the web-search node of Input -> WebSearch -> Output is given
WebSearchContextOf(execution) ==
    [node_data |-> TheWebSearchNode.data,
     parent_values |-> <<execution.input_data.value.v>>,
     input_value |-> execution.input_data.value.v]

\* C12: an execution of Input -> WebSearch -> Output whose web-search node
\* has a valid max_results and whose search succeeds ends SUCCESS with the
\* node's numbered result lines as output (for max_results = 2 and a
\* payload with an abstract and three related topics: two lines, the
\* abstract first).
C12_Original ==
    (/\ Ran
     /\ IsInputWebSearchOutputGraph
     /\ ~ReadMaxResults(WebSearchContextOf(executions[1])).raised
     /\ ~BuildQuery(WebSearchContextOf(executions[1])).raised
     /\ ~runs[1].persist_failed)
    => LET found == WebSearchExecute(WebSearchContextOf(executions[1]),
                                     [kind |-> "ok", payload |-> SearchPayload])
       IN /\ executions[1].status = SUCCESS
          /\ executions[1].output_data = [value |-> Join(<<found.value>>)]
          /\ Len(FormatResults(SearchPayload, 2)) = 2
          /\ FormatResults(SearchPayload, 2)[1]
               = <<"1", ".", " ", "a", " ", "(", "u", ")">>

\* the LLM nodes the loop entered whose chat request failed
FailedLLMNodes ==
    {n \in Range(response.result.trace) :
        /\ graph.nodes_by_id[n].type = LLM
        /\ response.llm[n].kind # "ok"}

\* the requests that fail in WebSearchNodeHandler._search
FailingSearches == {outcome \in SearchOutcomes : outcome.kind # "ok"}

LookupFailed ==
    /\ Ran
    /\ response.result.raised
    /\ response.result.error \in {"ExecutionNotFoundError",
                                  "WorkflowNotFoundError"}

\* C14: when run_execution fails because the Execution row or its Workflow
\* row is not found, execute_and_finalize writes neither FAILED nor an
\* error to any Execution row.
C14_Original ==
    LookupFailed
    => \A e \in ExecutionIds :
          executions[e].status = RUNNING /\ executions[e].error = None

\* C28: after a successful graph build the run loop never raises the
\* starved-node error and never fails to find a parent's output: every
\* non-INPUT node it visits is given one value for each of its inbound
\* edges, at least one, and when the loop ends the value of the output node
\* is there and is the result.
C28_NoStarvedNode ==
    (Ran /\ GraphBuilt /\ ~graph.raised)
    => LET result == response.result
       IN /\ result.raised
             => /\ result.message # MsgStarved
                /\ result.error # "KeyError"
          /\ \A n \in Range(result.trace) :
                graph.nodes_by_id[n].type # INPUT
                => /\ Len(result.parents[n]) >= 1
                   /\ Len(result.parents[n]) = Cardinality(EdgesInto(n))
          /\ ~result.raised
             => /\ graph.output_node_id \in DOMAIN result.outputs_by_node
                /\ result.output.value
                     = result.outputs_by_node[graph.output_node_id]

\* a run through an LLM node that answered: both non-INPUT nodes had their
\* one parent value and the output node's value is the answer
C28_Witness ==
    /\ Ran /\ GraphBuilt /\ ~graph.raised
    /\ ~response.result.raised
    /\ Len(response.result.trace) = 3
    /\ \E n \in Range(response.result.trace) :
          /\ graph.nodes_by_id[n].type = LLM
          /\ Len(response.result.parents[n]) = 1
    /\ Len(response.result.parents[graph.output_node_id]) = 1
    /\ response.result.output.value = <<"r">>

\* the errors of graph validation and node configuration, of input
\* validation and of provider connectivity
RunErrors ==
    {"ExecutionGraphValidationError", "ExecutionInputValidationError",
     "LLMProviderConnectionError", "WebSearchConnectionError"}

\* C21: when run_execution raises a graph-validation, input-validation,
\* node-configuration or provider-connectivity error, execute_and_finalize
\* leaves the row FAILED with error equal to the error's message and
\* finished_at set, changes nothing else of the row (one update), and
\* raises that same error to the worker.
C21_RunErrorPersistedThenReraised ==
    (Ran /\ response.result.raised /\ response.result.error \in RunErrors)
    => LET result == response.result
           row == executions[1]
       IN /\ row.status = FAILED
          /\ row.error = result.message
          /\ row.finished_at # None
          /\ row.output_data = Null
          /\ row.prefect_flow_run_id = None
          /\ \E value \in Values : row.input_data = [value |-> JStr(value)]
          /\ response.raised.raised
          /\ response.raised.error = result.error
          /\ response.raised.message = result.message

\* the graph was changed into one with a cycle before the run: the row is
\* FAILED with the cycle message and the worker gets the error
C21_Witness ==
    /\ Ran /\ GraphBuilt /\ graph.raised /\ graph.message = MsgCycle
    /\ executions[1].status = FAILED
    /\ executions[1].error = MsgCycle
    /\ executions[1].finished_at # None
    /\ response.raised.error = "ExecutionGraphValidationError"

\* =====================================================================
\* Claims about nodes (checked under SpecNode)
\* =====================================================================
\* the field names the catalog is expected to list for a type
ExpectedFields(type) ==
    IF type = LLM
    THEN {"label", "llm_provider_id", "model", "system_prompt"}
    ELSE {"label", "format"}

FieldNames(item) == {item.fields[i].name : i \in 1..Len(item.fields)}

\* a create_node request of the workflow's owner with valid data for its
\* type (an LLM node naming a provider the owner has)
IsValidNodeRequest(request) ==
    /\ request.user_id = Owner
    /\ request.data = DefaultData(request.type)

ContextOf(node_id) ==
    [workflow_owner_id |-> workflow.owner_id,
     node_data |-> graph.nodes_by_id[node_id].data,
     parent_values |-> response.result.parents[node_id],
     input_value |-> executions[1].input_data.value.v]

\* what the node's outbound request met
OutcomeOf(node_id) ==
    IF node_id \in DOMAIN response.llm THEN response.llm[node_id]
    ELSE [kind |-> "ok", payload |-> SearchPayload]

\* C17: the string the run loop stores for a node is what
\* NodeHandlerRegistry.execute returns for the node's type and context, so
\* INPUT, LLM, WEB_SEARCH and OUTPUT nodes each reach their handler, and
\* 'Unsupported node type' is raised only for a type the registry does not
\* map.
C17_Original ==
    (Ran /\ GraphBuilt /\ ~graph.raised)
    => LET result == response.result
       IN /\ \A n \in DOMAIN result.outputs_by_node :
                LET handled ==
                      RegistryExecute(graph.nodes_by_id[n].type, providers,
                                      ContextOf(n), OutcomeOf(n))
                IN ~handled.raised /\ result.outputs_by_node[n] = handled.value
          /\ (result.raised /\ result.message = MsgUnsupported)
             => \E i \in 1..Len(nodes) : nodes[i].type \notin RegisteredTypes

\* the sources of the edges that target a node, one per edge, in the order
\* of the edge list
EdgeSourcesInto(node_id) ==
    LET into == SelectSeq(edges, LAMBDA edge : edge.target_node_id = node_id)
    IN [i \in 1..Len(into) |-> into[i].source_node_id]

\* the outputs of those sources
EdgeOrderValues(node_id) ==
    LET sources == EdgeSourcesInto(node_id)
    IN [i \in 1..Len(sources) |-> response.result.outputs_by_node[sources[i]]]

\* C18: the parent_values of every non-INPUT node the loop runs are the
\* outputs of the sources of the edges that target it, one per edge (a
\* duplicated edge contributes twice), in the order of the edge list, and
\* the value of the OUTPUT node is those values joined with one newline.
C18_ParentValuesInEdgeOrder ==
    (Ran /\ GraphBuilt /\ ~graph.raised)
    => LET result == response.result
       IN /\ \A n \in DOMAIN graph.inbound :
                graph.inbound[n] = EdgeSourcesInto(n)
          /\ \A n \in Range(result.trace) :
                graph.nodes_by_id[n].type # INPUT
                => result.parents[n] = EdgeOrderValues(n)
          /\ ~result.raised
             => /\ result.output.value
                     = Join(EdgeOrderValues(graph.output_node_id))
                /\ ~runs[1].persist_failed
                   => executions[1].output_data = result.output

\* a run that succeeded whose OUTPUT node was given two different values,
\* that of the node with the greater id first
C18_Witness ==
    /\ Ran /\ GraphBuilt /\ ~graph.raised
    /\ ~response.result.raised
    /\ executions[1].status = SUCCESS
    /\ LET o == graph.output_node_id
           given == response.result.parents[o]
       IN /\ Len(given) = 2
          /\ given[1] # given[2]
          /\ graph.inbound[o][1] > graph.inbound[o][2]
          /\ executions[1].output_data.value = given[1] \o <<NL>> \o given[2]

\* C20: within one run the nodes are executed strictly in
\* topological_order, one after the other and each at most once, and a
\* node is executed only after every source of an edge into it has been
\* executed and has returned its output (so the lookup of a parent's output
\* never fails); a run that does not raise executes every node.
C20_HandlersInTopologicalOrder ==
    (Ran /\ GraphBuilt /\ ~graph.raised)
    => LET result == response.result
           trace == result.trace
           order == graph.topological_order
       IN /\ Len(trace) <= Len(order)
          /\ trace = SubSeq(order, 1, Len(trace))
          /\ \A i, j \in DOMAIN trace : i # j => trace[i] # trace[j]
          /\ \A k \in DOMAIN trace :
                \A p \in Range(EdgeSourcesInto(trace[k])) :
                   /\ \E j \in 1..(k - 1) : trace[j] = p
                   /\ p \in DOMAIN result.outputs_by_node
          /\ ~(result.raised /\ result.error = "KeyError")
          /\ ~result.raised => trace = order

\* a run over three nodes that executed all of them, in an order that is
\* not the order of the rows
C20_Witness ==
    /\ Ran /\ GraphBuilt /\ ~graph.raised
    /\ ~response.result.raised
    /\ Len(response.result.trace) = 3
    /\ response.result.trace = graph.topological_order
    /\ response.result.trace # NodeIds(nodes)

\* =====================================================================
\* Claims about the LLM node (checked under SpecLLM)
\* =====================================================================
\* the node's data has a positive integer llm_provider_id, a non-empty
\* string model and a system_prompt that is a string or is left out (taken
\* as empty), and the workflow's owner has the provider
LLMNodeMaySend ==
    LET data == nodes[1].data
    IN /\ "llm_provider_id" \in DOMAIN data
       /\ data.llm_provider_id.t = "int"
       /\ data.llm_provider_id.v > 0
       /\ "model" \in DOMAIN data
       /\ data.model.t = "str"
       /\ data.model.v # <<>>
       /\ "system_prompt" \in DOMAIN data => data.system_prompt.t = "str"
       /\ \E p \in providers :
             p.id = data.llm_provider_id.v /\ p.user_id = workflow.owner_id

\* the parent_values of the call joined with one newline
JoinedParentValues ==
    LET values == response.parent_values
    IN IF Len(values) = 1 THEN values[1]
       ELSE values[1] \o <<NL>> \o values[2]

\* C23: an LLM node sends a chat request only if llm_provider_id is a
\* positive integer, model a non-empty string, system_prompt a string
\* (empty when left out) and the workflow's owner has a provider with that
\* id; otherwise it raises ExecutionGraphValidationError and sends nothing,
\* also when the provider belongs to another user.  When it sends, it sends
\* one request: a system message with system_prompt, then a user message
\* with the parent_values joined by newlines.
C23_LLMNodeSendsOnlyWhenValid ==
    response.kind = "llm"
    => LET data == nodes[1].data
           result == response.result
       IN IF LLMNodeMaySend
          THEN /\ Len(result.chats) = 1
               /\ result.chats[1].provider = data.llm_provider_id.v
               /\ result.chats[1].model = data.model.v
               /\ result.chats[1].messages
                    = <<[role |-> "system",
                         content |-> IF "system_prompt" \in DOMAIN data
                                     THEN data.system_prompt.v ELSE <<>>],
                        [role |-> "user", content |-> JoinedParentValues]>>
          ELSE /\ result.raised
               /\ result.error = "ExecutionGraphValidationError"
               /\ result.chats = <<>>

\* a node that names the provider of another user raised and sent nothing
C23_Witness ==
    /\ response.kind = "llm"
    /\ nodes[1].data = DictOf(JInt(2), JStr(<<"m">>), JStr(<<"s">>))
    /\ Provider(2, Stranger) \in providers
    /\ response.result.raised
    /\ response.result.message = MsgLLMProviderMissing
    /\ response.result.chats = <<>>

\* =====================================================================
\* Claims about the web-search node (checked under SpecWeb)
\* =====================================================================
\* a string without the whitespace at its two ends
Trimmed(s) ==
    LET inner == {i \in 1..Len(s) : s[i] \notin Whitespace}
    IN IF inner = {} THEN <<>>
       ELSE SubSeq(s, CHOOSE i \in inner : \A j \in inner : i <= j,
                      CHOOSE i \in inner : \A j \in inner : j <= i)

\* the parent_values of the call joined with one newline
JoinedWebParents ==
    LET values == response.context.parent_values
    IN IF Len(values) = 1 THEN values[1]
       ELSE values[1] \o <<NL>> \o values[2]

\* the query the claim describes
ExpectedQuery ==
    IF Trimmed(JoinedWebParents) # <<>> THEN Trimmed(JoinedWebParents)
    ELSE Trimmed(response.context.input_value)

\* max_results is an integer in [1, 10]
MaxResultsIsValid ==
    LET data == response.context.node_data
    IN /\ "max_results" \in DOMAIN data
       /\ data.max_results.t = "int"
       /\ data.max_results.v \in 1..10

\* Input(1) -> WebSearch(3) -> Output(2) with the node data of the call
WfInputWebSearchOutput ==
    [nodes |-> <<Node(1, INPUT, InputData), Node(2, OUTPUT, OutputData),
                 Node(3, WEB_SEARCH, nodes[1].data)>>,
     edges |-> <<Edge(1, 3), Edge(3, 2)>>]

\* the row a run of that workflow on the row's input leaves
RowAfterWebSearchRun ==
    Finalize(executions[1],
             RunExecution(executions[1], WfInputWebSearchOutput.nodes,
                          WfInputWebSearchOutput.edges, providers, <<>>),
             TRUE)

TrimmedText(object, key) ==
    IF key \in DOMAIN object /\ object[key].t = "str"
    THEN Trimmed(object[key].v)
    ELSE <<>>

\* the leaf entries with a non-blank Text of a list of related topics, in
\* the order of the document, the entries of a group in the group's place
RECURSIVE DocumentOrderItems(_)
DocumentOrderItems(entries) ==
    IF entries = <<>> THEN <<>>
    ELSE LET entry == Head(entries)
             here == IF "Topics" \in DOMAIN entry /\ entry.Topics.t = "list"
                     THEN DocumentOrderItems(entry.Topics.v)
                     ELSE IF TrimmedText(entry, "Text") = <<>> THEN <<>>
                     ELSE <<[text |-> TrimmedText(entry, "Text"),
                             url |-> TrimmedText(entry, "FirstURL")]>>
         IN here \o DocumentOrderItems(Tail(entries))

\* the related-topic items of the payload the search returned
RelatedItems ==
    LET payload == response.outcome.payload
    IN IF "RelatedTopics" \in DOMAIN payload /\ payload.RelatedTopics.t = "list"
       THEN DocumentOrderItems(payload.RelatedTopics.v)
       ELSE <<>>

\* the abstract of that payload, as the only item of a list, if it has
\* one that is not blank
AbstractItems ==
    LET payload == response.outcome.payload
    IN IF TrimmedText(payload, "AbstractText") = <<>> THEN <<>>
       ELSE <<[text |-> TrimmedText(payload, "AbstractText"),
               url |-> TrimmedText(payload, "AbstractURL")]>>

\* "{index}. {text}" and " ({url})" when there is a url; index < 10
LineOf(index, item) ==
    <<Digits[index + 1], ".", " ">> \o item.text
      \o (IF item.url = <<>> THEN <<>> ELSE <<" ", "(">> \o item.url \o <<")">>)

\* str.split("\n")
RECURSIVE SplitLines(_)
SplitLines(s) ==
    IF \A i \in 1..Len(s) : s[i] # NL THEN <<s>>
    ELSE LET at == CHOOSE i \in 1..Len(s) :
                      s[i] = NL /\ \A j \in 1..(i - 1) : s[j] # NL
         IN <<SubSeq(s, 1, at - 1)>> \o SplitLines(SubSeq(s, at + 1, Len(s)))

\* the handler returned a string: the query and max_results were accepted
\* and the search answered
WebSearchReturned ==
    response.kind = "web" /\ ~response.result.raised

\* C25: for every payload and every max_results in [1, 10] the web-search
\* node returns min(max_results, number of extracted items) lines, numbered
\* from 1 without a gap, the abstract being line 1 whenever AbstractText is
\* not blank and the lines after it related-topic items; when nothing is
\* extracted it returns the one line 'No search results found for: ' and
\* the query.
C25_NumberedLinesUpToMaxResults ==
    WebSearchReturned
    => LET max_results == response.context.node_data.max_results.v
           extracted == Len(AbstractItems) + Len(RelatedItems)
           shown == IF extracted < max_results THEN extracted ELSE max_results
           lines == SplitLines(response.result.value)
       IN /\ max_results \in 1..10
          /\ IF extracted = 0
             THEN response.result.value = NoResultsFor(ExpectedQuery)
             ELSE /\ Len(lines) = shown
                  /\ \A k \in 1..Len(lines) :
                        \E item \in Range(AbstractItems \o RelatedItems) :
                           lines[k] = LineOf(k, item)
                  /\ AbstractItems # <<>>
                     => /\ lines[1] = LineOf(1, AbstractItems[1])
                        /\ \A k \in 2..Len(lines) :
                              \E item \in Range(RelatedItems) :
                                 lines[k] = LineOf(k, item)

\* max_results = 2 and a payload with an abstract and three related topics:
\* two lines, the abstract first
C25_Witness ==
    /\ WebSearchReturned
    /\ response.outcome.payload = SearchPayload
    /\ response.context.node_data.max_results = JInt(2)
    /\ Len(SplitLines(response.result.value)) = 2
    /\ SplitLines(response.result.value)[1]
         = <<"1", ".", " ", "a", " ", "(", "u", ")">>

\* C26 as stated: the items taken from RelatedTopics are the leaf entries
\* with a non-blank Text at any depth of Topics groups, each once, in the
\* order of the provider's payload, so that the lines returned are the
\* abstract (if any) and then the provider's first related topics.
C26_Original ==
    (WebSearchReturned /\ AbstractItems \o RelatedItems # <<>>)
    => LET lines == SplitLines(response.result.value)
       IN \A k \in 1..Len(lines) :
             lines[k] = LineOf(k, (AbstractItems \o RelatedItems)[k])

\* =====================================================================
\* Claims about a run after edits of the graph (checked under SpecEdit)
\* =====================================================================
\* C29: run_execution validates the nodes and edges it reads when it runs,
\* not those create_execution validated: a run that finds the graph
\* invalid, the edges having been changed since the execution was created,
\* leaves the row FAILED with the graph validation message, neither RUNNING
\* nor SUCCESS.
C29_RunValidatesCurrentGraph ==
    [][(1 \in ExecutionIds /\ RunStep(1) /\ FirstBrokenRule # None)
       => /\ executions'[1].status = FAILED
          /\ executions'[1].error = FirstBrokenRule
          /\ executions'[1].output_data = Null]_vars

\* the execution was created on a valid graph, an edit then left a node
\* that does not reach the output, and the run ended FAILED for it
C29_Witness ==
    /\ 1 \in ExecutionIds
    /\ runs[1].count = 1
    /\ GraphBuilt /\ graph.raised /\ graph.message = MsgConnectivity
    /\ Len(nodes) = 3
    /\ executions[1].status = FAILED
    /\ executions[1].error = MsgConnectivity

====
